---------------------------- MODULE Spec2Model ----------------------------
(***************************************************************************)
(* Persistent single-flight TTL cache of web/lib/cache.ts: the in-memory   *)
(* table, the in-flight registry, the debounced snapshot writer and the    *)
(* snapshot file, together with the callers of getOrSet.                   *)
(***************************************************************************)
EXTENDS Integers, Sequences, FiniteSets, TLC

(* ------------------------------ bounds --------------------------------- *)
MaxTime == 1
MaxOps == 3
MaxCalls == 2
MaxCrash == 1
MaxRuns == 1
MaxReqs == 2
MaxAssets == 2
MaxLoads == 4

\* TrackVisualClient.tsx:852 and :974  the attempt caps of the two poll loops
PreviewMaxAttempts == 40
RefineMaxAttempts == 60

Keys == {"k1", "k2"}
KeyOrder == <<"k1", "k2">>
Values == {"a", "b"}
DiskValues == {"a"}   \* the value cacheSet is given where values are only carried
TTLs == {0 - 1, 0, 1}
NoValue == "undefined"

(* ------------------------------- state --------------------------------- *)
VARIABLES
  store,       \* g[GLOBAL_CACHE_KEY]: Map key -> {value, expiresAt}
  init,        \* g[GLOBAL_INIT_KEY]
  inflight,    \* g[GLOBAL_INFLIGHT_KEY]: Map key -> promise
  promises,    \* the promises created by cacheGetOrSet's async block
  calls,       \* the cacheGetOrSet calls issued in this process
  dirty,       \* g[GLOBAL_PERSIST_DIRTY_KEY]
  timer,       \* g[GLOBAL_PERSIST_SCHED_KEY] is set
  persisting,  \* g[GLOBAL_PERSISTING_KEY]
  rerun,       \* number of pending setTimeout(.., 0) re-run timers
  pc,          \* position of the running persistToDisk body
  pdata,       \* the local `data` of the running persistToDisk
  psrc,        \* the live entries `data` was built from
  file,        \* CACHE_FILE on disk
  tmp,         \* CACHE_FILE.tmp on disk
  savedFrom,   \* the live entries the content of CACHE_FILE was built from
  now,         \* Date.now()
  last,        \* the operation that made the last step, with what it saw
  nops,        \* API calls issued so far
  ncrash,      \* process restarts so far
  reqs,        \* the requests the route handlers have received
  ups,         \* the calls made to the generation service
  run,         \* the tryLoadMeshyModel call of the page
  norm,        \* a submission response and what the route made of it
  ext,         \* a status response and what the extractors made of it
  proxy,       \* the requests the asset proxy has received
  env,         \* process.env.MESHY_API_KEY
  loads        \* modelLoadInProgressRef and the calls of tryLoadMeshyModel

vars == <<store, init, inflight, promises, calls, dirty, timer, persisting,
          rerun, pc, pdata, psrc, file, tmp, savedFrom, now, last, nops,
          ncrash, reqs, ups, run, norm, ext, proxy, env, loads>>

\* the state of the generation workflow, which no cache operation touches
orch == <<reqs, ups, run, norm, ext, proxy, env, loads>>

\* the state of the snapshot writer and of the cache API's own callers
disk == <<persisting, rerun, pc, pdata, psrc, file, tmp, savedFrom, ncrash>>

EmptyTable == [k \in {} |-> 0]
NoFile == [exists |-> FALSE, complete |-> TRUE, data |-> <<>>]
NoSource == [known |-> FALSE, store |-> EmptyTable, at |-> 0]
NoLoad == [did |-> FALSE, ok |-> TRUE, table |-> EmptyTable, at |-> 0,
           src |-> NoSource, hadFile |-> FALSE, complete |-> TRUE]
NoLast == [op |-> "none", key |-> "-", saw |-> "absent", res |-> NoValue,
           err |-> FALSE, load |-> NoLoad]

\* a model URL variable that holds null
NoUrl == "null"
\* the response of a route before any has arrived
NoResponse == [ok |-> FALSE, json |-> NoValue]
\* tryLoadMeshyModel is not running and has not run
NoRun == [pc |-> "idle", n |-> 0, i |-> 0, prompt |-> NoValue,
          previewModelUrl |-> NoUrl, modelUrl |-> NoUrl,
          previewGenerationId |-> NoValue, refineId |-> NoValue,
          cached |-> NoUrl, subs |-> 0, queries |-> 0, polled |-> FALSE,
          pout |-> "none", rsub |-> "none", rout |-> "none",
          resp |-> NoResponse, trace |-> <<>>, end |-> "none",
          isRefinedModel |-> FALSE]
\* a JSON field that is undefined where an object or a string may stand
NoObject == [kind |-> "undefined", s |-> NoValue, id |-> NoValue, task_id |-> NoValue]
\* the body {}
EmptyBody == [id |-> NoValue, task_id |-> NoValue, generation_id |-> NoValue,
              result |-> NoObject, data |-> NoObject]
\* no submission has been answered yet
NoNorm == [got |-> FALSE, json |-> EmptyBody, out |-> NoValue,
           refine |-> NoValue, rig |-> NoValue]

\* the credential of the generation service
ApiKey == "msy_key"
\* a page on which tryLoadMeshyModel has not been called
NoLoads == [modelLoadInProgress |-> FALSE, calls |-> <<>>, fetches |-> 0]

\* no status response has been looked at yet
NoExt == [got |-> FALSE, done |-> FALSE, page |-> NoUrl, route |-> NoUrl]

(* --------------------------- pure helpers ------------------------------ *)

\* an expiry test that lets an entry live through its expiry instant
ExpiredLate(e, t) == e.expiresAt < t

\* cache.ts:137  entry.expiresAt <= Date.now()
Expired(e, t) == e.expiresAt <= t

\* a load filter that keeps an entry at its expiry instant
LoadKeepsAtExpiry(e, t) == e.expiresAt >= t

\* cache.ts:37-41  entry && typeof entry.expiresAt === "number" && entry.expiresAt > now
LoadKeeps(e, t) == e.expiresAt > t

\* cache.ts:112  if (entry.expiresAt > now) snapshot[k] = entry
SnapshotKeeps(e, t) == e.expiresAt > t

\* cache.ts:147  Date.now() + Math.max(0, ttlMs)
ExpiresAt(t, ttl) == t + (IF ttl > 0 THEN ttl ELSE 0)

\* Map.prototype.set / Map.prototype.delete on the table
TableSet(st, k, e) == [x \in (DOMAIN st) \cup {k} |-> IF x = k THEN e ELSE st[x]]
TableDelete(st, k) == [x \in (DOMAIN st) \ {k} |-> st[x]]

\* cache.ts:110-116  snapshot object of the live entries, JSON.stringify
StringifySnapshot(st, t) ==
  LET Keep(k) == k \in DOMAIN st /\ SnapshotKeeps(st[k], t)
      ks == SelectSeq(KeyOrder, Keep)
  IN  [i \in 1..Len(ks) |->
         [key |-> ks[i], value |-> st[ks[i]].value, expiresAt |-> st[ks[i]].expiresAt]]

\* cache.ts:34-47  JSON.parse and insertion of the entries still live
ParseSnapshot(data, t) ==
  LET idx == {i \in 1..Len(data) : LoadKeeps(data[i], t)}
      ks == {data[i].key : i \in idx}
  IN  [k \in ks |->
         LET i == CHOOSE j \in idx : data[j].key = k
         IN  [value |-> data[i].value, expiresAt |-> data[i].expiresAt]]

\* a schedulePersist that starts the timer without marking the table dirty
SchedulePersistNoDirty(m) == [m EXCEPT !.timer = TRUE]

\* cache.ts:79-97  schedulePersist: mark dirty, start the debounce timer once
SchedulePersist(m) == [m EXCEPT !.dirty = TRUE, !.timer = TRUE]

\* cache.ts:22-59  getStore: lazy load of the snapshot on first access.
\* m is the memory [store, dirty, timer]; readOk is the outcome of
\* readFileSync/JSON.parse.
GetStore(m, isInit, f, t, readOk) ==
  IF isInit THEN [m |-> m, did |-> FALSE, ok |-> TRUE, threw |-> FALSE]
  ELSE IF ~f.exists THEN [m |-> m, did |-> TRUE, ok |-> TRUE, threw |-> FALSE]
  ELSE IF readOk /\ f.complete
       THEN [m |-> SchedulePersist([m EXCEPT !.store = ParseSnapshot(f.data, t)]),
             did |-> TRUE, ok |-> TRUE, threw |-> FALSE]
       ELSE [m |-> m, did |-> TRUE, ok |-> FALSE, threw |-> FALSE]

\* a cacheGet that evicts an expired entry without scheduling a save
CacheGetSilent(m, k, t) ==
  IF k \notin DOMAIN m.store
    THEN [m |-> m, found |-> FALSE, value |-> NoValue]
  ELSE IF Expired(m.store[k], t)
    THEN [m |-> [m EXCEPT !.store = TableDelete(m.store, k)],
          found |-> FALSE, value |-> NoValue]
  ELSE [m |-> m, found |-> TRUE, value |-> m.store[k].value]

\* cache.ts:133-143  cacheGet on an initialised memory m
CacheGet(m, k, t) ==
  IF k \notin DOMAIN m.store
    THEN [m |-> m, found |-> FALSE, value |-> NoValue]
  ELSE IF Expired(m.store[k], t)
    THEN [m |-> SchedulePersist([m EXCEPT !.store = TableDelete(m.store, k)]),
          found |-> FALSE, value |-> NoValue]
  ELSE [m |-> m, found |-> TRUE, value |-> m.store[k].value]

\* cache.ts:145-150  cacheSet
CacheSet(m, k, v, ttl, t) ==
  SchedulePersist([m EXCEPT !.store =
     TableSet(m.store, k, [value |-> v, expiresAt |-> ExpiresAt(t, ttl)])])

\* a cacheDelete that schedules a save whether or not it removed anything
CacheDeleteAlways(m, k) ==
  SchedulePersist([m EXCEPT !.store = TableDelete(m.store, k)])

\* cache.ts:179-184  cacheDelete
CacheDelete(m, k) ==
  IF k \in DOMAIN m.store
    THEN SchedulePersist([m EXCEPT !.store = TableDelete(m.store, k)])
    ELSE m

Mem == [store |-> store, dirty |-> dirty, timer |-> timer]

\* the entries of a table whose expiry lies after t
LiveAt(tbl, t) ==
  [k \in {x \in DOMAIN tbl : tbl[x].expiresAt > t} |-> tbl[k]]

(* ------------------------- snapshot writer ----------------------------- *)

\* a writer that opens and truncates CACHE_FILE itself
BeginWriteInPlace(f, tm) ==
  [file |-> [exists |-> TRUE, complete |-> FALSE, data |-> <<>>],
   tmp |-> [exists |-> TRUE, complete |-> FALSE, data |-> <<>>]]

\* cache.ts:115-117  fsp.writeFile(tmp, data): the temporary file is opened
\* and truncated; CACHE_FILE is not touched.
BeginWrite(f, tm) ==
  [file |-> f, tmp |-> [exists |-> TRUE, complete |-> FALSE, data |-> <<>>]]

\* a persistToDisk that leaves the persisting flag set
PersistFinallyKeepsFlag(d, r) ==
  [persisting |-> TRUE, rerun |-> IF d THEN r + 1 ELSE r]

\* cache.ts:121-130  finally block of persistToDisk
PersistFinally(d, r) ==
  [persisting |-> FALSE, rerun |-> IF d THEN r + 1 ELSE r]

\* a persistToDisk that does not test the persisting flag
PersistToDiskUnguarded ==
  LET w == BeginWrite(file, tmp)
  IN  /\ persisting' = TRUE
      /\ dirty' = FALSE
      /\ pc' = "writing"
      /\ pdata' = StringifySnapshot(store, now)
      /\ psrc' = [known |-> TRUE, store |-> LiveAt(store, now), at |-> now]
      /\ file' = w.file
      /\ tmp' = w.tmp

\* cache.ts:99-117  persistToDisk up to its first await, called by a timer
PersistToDisk ==
  IF persisting
    THEN UNCHANGED <<persisting, dirty, pc, pdata, psrc, file, tmp>>
    ELSE LET w == BeginWrite(file, tmp)
         IN  /\ persisting' = TRUE
             /\ dirty' = FALSE
             /\ pc' = "writing"
             /\ pdata' = StringifySnapshot(store, now)
             /\ psrc' = [known |-> TRUE, store |-> LiveAt(store, now), at |-> now]
             /\ file' = w.file
             /\ tmp' = w.tmp

\* a step that is not an API call
Step(name) == last' = [NoLast EXCEPT !.op = name]

\* cache.ts:88-91  the debounce timer fires
FireTimer ==
  /\ timer
  /\ timer' = FALSE
  /\ PersistToDisk
  /\ Step("none")
  /\ UNCHANGED <<store, init, inflight, promises, calls, rerun, savedFrom, now, nops, ncrash>>
  /\ UNCHANGED orch

\* cache.ts:126-128  a re-run timer fires
FireRerun ==
  /\ rerun > 0
  /\ rerun' = rerun - 1
  /\ PersistToDisk
  /\ Step("none")
  /\ UNCHANGED <<store, init, inflight, promises, calls, timer, savedFrom, now, nops, ncrash>>
  /\ UNCHANGED orch

\* cache.ts:117  writeFile resolves: the temporary file holds all of data
WriteDone ==
  /\ pc = "writing"
  /\ pc' = "renaming"
  /\ tmp' = [exists |-> TRUE, complete |-> TRUE, data |-> pdata]
  /\ Step("none")
  /\ UNCHANGED <<store, init, inflight, promises, calls, dirty, timer,
                 persisting, rerun, pdata, psrc, file, savedFrom,
                 now, nops, ncrash>>
  /\ UNCHANGED orch

\* cache.ts:117,119-130  writeFile rejects: catch, then finally
WriteFail ==
  /\ pc = "writing"
  /\ pc' = "idle"
  /\ pdata' = <<>>
  /\ psrc' = NoSource
  /\ persisting' = PersistFinally(dirty, rerun).persisting
  /\ rerun' = PersistFinally(dirty, rerun).rerun
  /\ Step("saveFailed")
  /\ UNCHANGED <<store, init, inflight, promises, calls, dirty, timer, file, tmp, savedFrom, now, nops, ncrash>>
  /\ UNCHANGED orch

\* cache.ts:118,121-130  rename resolves: CACHE_FILE is replaced, then finally
RenameDone ==
  /\ pc = "renaming"
  /\ pc' = "idle"
  /\ pdata' = <<>>
  /\ psrc' = NoSource
  /\ file' = tmp
  /\ tmp' = NoFile
  /\ savedFrom' = psrc
  /\ persisting' = PersistFinally(dirty, rerun).persisting
  /\ rerun' = PersistFinally(dirty, rerun).rerun
  /\ Step("none")
  /\ UNCHANGED <<store, init, inflight, promises, calls, dirty, timer, now, nops, ncrash>>
  /\ UNCHANGED orch

\* cache.ts:118-130  rename rejects: catch, then finally
RenameFail ==
  /\ pc = "renaming"
  /\ pc' = "idle"
  /\ pdata' = <<>>
  /\ psrc' = NoSource
  /\ persisting' = PersistFinally(dirty, rerun).persisting
  /\ rerun' = PersistFinally(dirty, rerun).rerun
  /\ Step("saveFailed")
  /\ UNCHANGED <<store, init, inflight, promises, calls, dirty, timer, file, tmp, savedFrom, now, nops, ncrash>>
  /\ UNCHANGED orch

(* ------------------------------ the API -------------------------------- *)

ReadOutcomes == IF init \/ ~file.exists THEN {TRUE} ELSE BOOLEAN

\* what getStore() leaves behind besides the table: the init flag and,
\* for the record, what the load did
AfterGetStore(g) == init' = (IF g.threw THEN init ELSE TRUE)

\* what the lazy load of this call did, for the record
LoadRecord(g) ==
  IF g.did
    THEN [did |-> TRUE, ok |-> g.ok, table |-> g.m.store, at |-> now,
          src |-> savedFrom, hadFile |-> file.exists,
          complete |-> file.complete]
    ELSE NoLoad

\* what the table held for k at time t when the call looked, for the record
Observe(tbl, k, t) ==
  IF k \notin DOMAIN tbl THEN "absent"
  ELSE IF tbl[k].expiresAt > t THEN "live" ELSE "expired"

SetMem(m) ==
  /\ store' = m.store
  /\ dirty' = m.dirty
  /\ timer' = m.timer

\* cache.ts:133-143  cacheGet(key)
cacheGet(k) ==
  /\ nops < MaxOps
  /\ nops' = nops + 1
  /\ \E readOk \in ReadOutcomes :
       LET g == GetStore(Mem, init, file, now, readOk)
           r == CacheGet(g.m, k, now)
       IN  /\ AfterGetStore(g)
           /\ SetMem(IF g.threw THEN Mem ELSE r.m)
           /\ last' = [op |-> "get", key |-> k,
                       saw |-> Observe(g.m.store, k, now),
                       res |-> IF g.threw THEN NoValue ELSE r.value,
                       err |-> g.threw, load |-> LoadRecord(g)]
  /\ UNCHANGED <<inflight, promises, calls, persisting, rerun, pc, pdata,
                 psrc, file, tmp, savedFrom, now, ncrash>>
  /\ UNCHANGED orch

\* cache.ts:145-150  cacheSet(key, value, ttlMs)
cacheSet(k, v, ttl) ==
  /\ nops < MaxOps
  /\ nops' = nops + 1
  /\ \E readOk \in ReadOutcomes :
       LET g == GetStore(Mem, init, file, now, readOk)
       IN  /\ AfterGetStore(g)
           /\ SetMem(IF g.threw THEN Mem ELSE CacheSet(g.m, k, v, ttl, now))
           /\ last' = [op |-> "set", key |-> k,
                       saw |-> Observe(g.m.store, k, now), res |-> NoValue,
                       err |-> g.threw, load |-> LoadRecord(g)]
  /\ UNCHANGED <<inflight, promises, calls, persisting, rerun, pc, pdata,
                 psrc, file, tmp, savedFrom, now, ncrash>>
  /\ UNCHANGED orch

\* cache.ts:179-184  cacheDelete(key)
cacheDelete(k) ==
  /\ nops < MaxOps
  /\ nops' = nops + 1
  /\ \E readOk \in ReadOutcomes :
       LET g == GetStore(Mem, init, file, now, readOk)
       IN  /\ AfterGetStore(g)
           /\ SetMem(IF g.threw THEN Mem ELSE CacheDelete(g.m, k))
           /\ last' = [op |-> "delete", key |-> k,
                       saw |-> Observe(g.m.store, k, now), res |-> NoValue,
                       err |-> g.threw, load |-> LoadRecord(g)]
  /\ UNCHANGED <<inflight, promises, calls, persisting, rerun, pc, pdata,
                 psrc, file, tmp, savedFrom, now, ncrash>>
  /\ UNCHANGED orch

\* a compute of key k has been invoked and has not settled
Running(k) ==
  \E p \in 1..Len(promises) : promises[p].key = k /\ promises[p].state = "pending"

\* the unsettled compute of key k, 0 when there is none
RunningId(k) ==
  IF Running(k)
    THEN CHOOSE p \in 1..Len(promises) :
           promises[p].key = k /\ promises[p].state = "pending"
    ELSE 0

\* a getOrSet that never finds a computation in progress
InProgressNever(reg, k) == FALSE

\* cache.ts:161-163  inFlightStore.get(key) is defined
InProgress(reg, k) == k \in DOMAIN reg

\* an async block that does not register its promise
StartComputeUnregistered(reg, k, ttl, id, throws) ==
  [promise |-> [key |-> k, ttl |-> ttl,
                state |-> IF throws THEN "rejected" ELSE "pending",
                val |-> NoValue],
   inflight |-> reg]

\* cache.ts:165-175  the async block: compute() is invoked synchronously; when
\* it throws, the finally block deletes the (not yet made) registration and
\* the block returns a rejected promise; the promise is registered afterwards.
StartCompute(reg, k, ttl, id, throws) ==
  [promise |-> [key |-> k, ttl |-> ttl,
                state |-> IF throws THEN "rejected" ELSE "pending",
                val |-> NoValue],
   inflight |-> TableSet(IF throws THEN TableDelete(reg, k) ELSE reg, k, id)]

\* cache.ts:170-173  finally of the async block once compute has settled
SettleCleanup(reg, k) == TableDelete(reg, k)

\* cache.ts:152-177  cacheGetOrSet(key, ttlMs, compute); throws tells whether
\* this compute throws synchronously when it is invoked
GetOrSet(k, ttl, throws) ==
  /\ nops < MaxOps
  /\ nops' = nops + 1
  /\ \E readOk \in ReadOutcomes :
       LET g == GetStore(Mem, init, file, now, readOk)
           r == CacheGet(g.m, k, now)
           id == Len(promises) + 1
           c == [key |-> k, absent |-> ~r.found, running |-> RunningId(k),
                 how |-> "hit", p |-> 0, val |-> r.value, gone |-> FALSE]
       IN  /\ AfterGetStore(g)
           /\ SetMem(IF g.threw THEN Mem ELSE r.m)
           /\ last' = [op |-> "getOrSet", key |-> k,
                       saw |-> Observe(g.m.store, k, now), res |-> r.value,
                       err |-> g.threw, load |-> LoadRecord(g)]
           /\ IF g.threw
                THEN UNCHANGED <<inflight, promises, calls>>
              ELSE IF r.found
                THEN /\ calls' = Append(calls, c)
                     /\ UNCHANGED <<inflight, promises>>
              ELSE IF InProgress(inflight, k)
                THEN /\ calls' = Append(calls,
                                   [c EXCEPT !.how = "join", !.p = inflight[k]])
                     /\ UNCHANGED <<inflight, promises>>
              ELSE LET sc == StartCompute(inflight, k, ttl, id, throws)
                   IN  /\ calls' = Append(calls,
                                     [c EXCEPT !.how = "lead", !.p = id])
                       /\ promises' = Append(promises, sc.promise)
                       /\ inflight' = sc.inflight
  /\ UNCHANGED <<persisting, rerun, pc, pdata, psrc, file, tmp, savedFrom,
                 now, ncrash>>
  /\ UNCHANGED orch

\* a resolution that stores the value only when the key has no entry
ComputeResolveIfAbsent(p, v) ==
  /\ promises[p].state = "pending"
  /\ LET k == promises[p].key
         g == GetStore(Mem, init, file, now, TRUE)
     IN  /\ AfterGetStore(g)
         /\ SetMem(IF k \in DOMAIN g.m.store THEN g.m
                   ELSE CacheSet(g.m, k, v, promises[p].ttl, now))
         /\ inflight' = SettleCleanup(inflight, k)
         /\ promises' = [promises EXCEPT ![p].state = "resolved", ![p].val = v]
         /\ Step("none")
  /\ UNCHANGED <<calls, persisting, rerun, pc, pdata, psrc, file, tmp,
                 savedFrom, now, nops, ncrash>>
  /\ UNCHANGED orch

\* cacheGetOrSet is called while fewer than MaxCalls calls have been made
cacheGetOrSet(k, ttl, throws) ==
  /\ Len(calls) < MaxCalls
  /\ GetOrSet(k, ttl, throws)

\* cache.ts:167-173  compute resolves with v: cacheSet, return, finally
ComputeResolve(p, v) ==
  /\ promises[p].state = "pending"
  /\ LET k == promises[p].key
         g == GetStore(Mem, init, file, now, TRUE)
     IN  /\ AfterGetStore(g)
         /\ SetMem(CacheSet(g.m, k, v, promises[p].ttl, now))
         /\ inflight' = SettleCleanup(inflight, k)
         /\ promises' = [promises EXCEPT ![p].state = "resolved", ![p].val = v]
         /\ Step("none")
  /\ UNCHANGED <<calls, persisting, rerun, pc, pdata, psrc, file, tmp,
                 savedFrom, now, nops, ncrash>>
  /\ UNCHANGED orch

\* cache.ts:167,170-173  the promise returned by compute rejects: finally
ComputeReject(p) ==
  /\ promises[p].state = "pending"
  /\ inflight' = SettleCleanup(inflight, promises[p].key)
  /\ promises' = [promises EXCEPT ![p].state = "rejected"]
  /\ Step("none")
  /\ UNCHANGED <<store, init, calls, dirty, timer, persisting, rerun, pc,
                 pdata, psrc, file, tmp, savedFrom, now,
                 nops, ncrash>>
  /\ UNCHANGED orch

\* cache.ts:152-177  the caller of call c stops awaiting the promise that
\* cacheGetOrSet returned to it: nothing of the cache refers to the caller
Abandon(c) ==
  /\ c \in 1..Len(calls)
  /\ ~calls[c].gone
  /\ calls' = [calls EXCEPT ![c].gone = TRUE]
  /\ Step("none")
  /\ UNCHANGED <<store, init, inflight, promises, dirty, timer, persisting,
                 rerun, pc, pdata, psrc, file, tmp, savedFrom, now, nops, ncrash>>
  /\ UNCHANGED orch

(* --------------------------- environment ------------------------------- *)

\* Date.now() advances
Tick ==
  /\ now < MaxTime
  /\ now' = now + 1
  /\ Step("none")
  /\ UNCHANGED <<store, init, inflight, promises, calls, dirty, timer,
                 persisting, rerun, pc, pdata, psrc, file, tmp, savedFrom, nops, ncrash>>
  /\ UNCHANGED orch

\* the process stops at any point and a fresh one starts: globalThis is
\* empty again, the two files stay as they are
Crash ==
  /\ ncrash < MaxCrash
  /\ ncrash' = ncrash + 1
  /\ store' = EmptyTable
  /\ init' = FALSE
  /\ inflight' = EmptyTable
  /\ promises' = <<>>
  /\ calls' = <<>>
  /\ dirty' = FALSE
  /\ timer' = FALSE
  /\ persisting' = FALSE
  /\ rerun' = 0
  /\ pc' = "idle"
  /\ pdata' = <<>>
  /\ psrc' = NoSource
  /\ Step("none")
  /\ UNCHANGED <<file, tmp, savedFrom, now, nops>>
  /\ UNCHANGED orch

Init ==
  /\ store = EmptyTable
  /\ init = FALSE
  /\ inflight = EmptyTable
  /\ promises = <<>>
  /\ calls = <<>>
  /\ dirty = FALSE
  /\ timer = FALSE
  /\ persisting = FALSE
  /\ rerun = 0
  /\ pc = "idle"
  /\ pdata = <<>>
  /\ psrc = NoSource
  /\ file = NoFile
  /\ tmp = NoFile
  /\ savedFrom = NoSource
  /\ now = 0
  /\ last = NoLast
  /\ nops = 0
  /\ ncrash = 0
  /\ reqs = <<>>
  /\ ups = <<>>
  /\ run = NoRun
  /\ norm = NoNorm
  /\ ext = NoExt
  /\ proxy = <<>>
  /\ env = ApiKey
  /\ loads = NoLoads

Next ==
  \/ \E k \in Keys : cacheGet(k)
  \/ \E k \in Keys, v \in Values, ttl \in TTLs : cacheSet(k, v, ttl)
  \/ \E k \in Keys : cacheDelete(k)
  \/ \E k \in Keys, ttl \in TTLs, throws \in BOOLEAN : cacheGetOrSet(k, ttl, throws)
  \/ \E p \in 1..Len(promises), v \in Values : ComputeResolve(p, v)
  \/ \E p \in 1..Len(promises) : ComputeReject(p)
  \/ FireTimer
  \/ FireRerun
  \/ WriteDone
  \/ WriteFail
  \/ RenameDone
  \/ RenameFail
  \/ Tick
  \/ Crash

Spec == Init /\ [][Next]_vars

\* The callers of the cache and their computes, without the snapshot writer:
\* no step of the writer touches the table, the registry or a promise.
NextFlight ==
  \/ \E k \in Keys : cacheGet(k)
  \/ \E k \in Keys, v \in DiskValues, ttl \in TTLs : cacheSet(k, v, ttl)
  \/ \E k \in Keys : cacheDelete(k)
  \/ \E k \in Keys, ttl \in TTLs, throws \in BOOLEAN : cacheGetOrSet(k, ttl, throws)
  \/ \E p \in 1..Len(promises), v \in Values : ComputeResolve(p, v)
  \/ \E p \in 1..Len(promises) : ComputeReject(p)
  \/ Tick

SpecFlight == Init /\ [][NextFlight]_vars

\* getOrSet of one key, one call more than in SpecFlight.
NextUncached ==
  \/ \E ttl \in TTLs, throws \in BOOLEAN :
       /\ Len(calls) < MaxCalls + 1
       /\ GetOrSet("k1", ttl, throws)
  \/ \E p \in 1..Len(promises), v \in Values : ComputeResolve(p, v)
  \/ \E p \in 1..Len(promises) : ComputeReject(p)
  \/ cacheGet("k1")
  \/ \E ttl \in TTLs : cacheSet("k1", "a", ttl)
  \/ Tick

SpecUncached == Init /\ [][NextUncached]_vars

\* getOrSet with callers that stop awaiting.
NextAbandon ==
  \/ \E k \in Keys, ttl \in TTLs, throws \in BOOLEAN : cacheGetOrSet(k, ttl, throws)
  \/ \E p \in 1..Len(promises), v \in Values : ComputeResolve(p, v)
  \/ \E p \in 1..Len(promises) : ComputeReject(p)
  \/ \E c \in 1..Len(calls) : Abandon(c)
  \/ Tick

SpecAbandon == Init /\ [][NextAbandon]_vars

\* The table, the snapshot writer, the two files and process restarts,
\* without getOrSet (whose only effect on the table is a cacheSet).
NextDisk ==
  \/ \E k \in Keys : cacheGet(k)
  \/ \E k \in Keys, v \in DiskValues, ttl \in TTLs : cacheSet(k, v, ttl)
  \/ \E k \in Keys : cacheDelete(k)
  \/ FireTimer
  \/ FireRerun
  \/ WriteDone
  \/ WriteFail
  \/ RenameDone
  \/ RenameFail
  \/ Tick
  \/ Crash

SpecDisk == Init /\ [][NextDisk]_vars

\* The table and the snapshot writer in a process that stays up and whose
\* saves succeed. The event loop runs every timer that has expired and
\* settles every file operation it has started, hence the weak fairness.
NextLive ==
  \/ \E k \in Keys : cacheGet(k)
  \/ \E k \in Keys, v \in DiskValues, ttl \in TTLs : cacheSet(k, v, ttl)
  \/ \E k \in Keys : cacheDelete(k)
  \/ FireTimer
  \/ FireRerun
  \/ WriteDone
  \/ RenameDone
  \/ Tick

LiveSpec ==
  /\ Init
  /\ [][NextLive]_vars
  /\ WF_vars(FireTimer)
  /\ WF_vars(FireRerun)
  /\ WF_vars(WriteDone)
  /\ WF_vars(RenameDone)

\* no save has ended yet
FirstSave == ~savedFrom.known

\* The table and the snapshot writer in a process that stays up, whose saves
\* succeed and whose callers read and change the table up to the end of the
\* first save and not after it.
NextRerun ==
  \/ \E k \in Keys : FirstSave /\ cacheGet(k)
  \/ \E k \in Keys, v \in DiskValues, ttl \in TTLs : FirstSave /\ cacheSet(k, v, ttl)
  \/ \E k \in Keys : FirstSave /\ cacheDelete(k)
  \/ FireTimer
  \/ FireRerun
  \/ WriteDone
  \/ RenameDone
  \/ Tick

SpecRerun == Init /\ [][NextRerun]_vars

(* ------------------- the page: tryLoadMeshyModel ----------------------- *)

Urls == {"u1", "u2"}
StatusStrings == {"PENDING", "FAILED", "Canceled"}

\* String.prototype.toLowerCase on the status strings
ToLowerCase(s) ==
  CASE s = "PENDING" -> "pending"
    [] s = "FAILED" -> "failed"
    [] s = "Canceled" -> "canceled"
    [] OTHER -> s

\* TrackVisualClient.tsx:889,1007  j.status && /failed|canceled/i.test(j.status)
FailedPattern(s) == s # NoValue /\ ToLowerCase(s) \in {"failed", "canceled"}

\* the bodies of the 2xx responses of the status route: the status text, the
\* model_url field and the glb field of model_urls
StatusJsons ==
  [status : StatusStrings \cup {NoValue},
   model_url : Urls \cup {NoValue},
   glb : {"u2", NoValue}]

\* what fetch of the status route resolves with
StatusResponses ==
  {NoResponse} \cup {[ok |-> TRUE, json |-> j] : j \in StatusJsons}

\* what fetch of /api/visualizer/meshy resolves with, as the page types it:
\* { prompt?: string; modelUrl?: string }
PromptResponses ==
  {[ok |-> FALSE, prompt |-> NoValue, modelUrl |-> NoValue]} \cup
  [ok : {TRUE}, prompt : {"A", NoValue}, modelUrl : {"u1", NoValue}]

\* what fetch of the start route and of the refine route resolves with, as the
\* page types it: { id?: string; ... }
SubmitResponses ==
  {[ok |-> FALSE, id |-> NoValue]} \cup [ok : {TRUE}, id : {"j1", NoValue}]

\* TrackVisualClient.tsx:779-847  pickModelUrl
PickModelUrl(j) ==
  IF j.model_url # NoValue THEN j.model_url
  ELSE IF j.glb # NoValue THEN j.glb
  ELSE NoUrl

\* a loop body that looks at the status text before the model URL
PollAttemptStatusFirst(resp) ==
  IF ~resp.ok THEN "continue"
  ELSE IF FailedPattern(resp.json.status) THEN "failed"
  ELSE IF PickModelUrl(resp.json) # NoUrl THEN "ready"
  ELSE "continue"

\* TrackVisualClient.tsx:861-894 and 983-1012  what one iteration of a poll
\* loop does with the response to its status query
PollAttempt(resp) ==
  IF ~resp.ok THEN "continue"
  ELSE IF PickModelUrl(resp.json) # NoUrl THEN "ready"
  ELSE IF FailedPattern(resp.json.status) THEN "failed"
  ELSE "continue"

\* a loop that makes one attempt more
LoopGoesOnOneMore(i, max) == i <= max

\* TrackVisualClient.tsx:852,974  for (let i = 0; i < max; i++)
LoopGoesOn(i, max) == i < max

\* TrackVisualClient.tsx:901  if (!previewModelUrl) return
PreviewMissing(url) == url = NoUrl

\* TrackVisualClient.tsx:1038  isRefinedModel = modelUrl !== previewModelUrl
IsRefinedModel(modelUrl, previewModelUrl) == modelUrl # previewModelUrl

\* TrackVisualClient.tsx:1474-1480  the function returns: finally
RunEnds(r, how) == [r EXCEPT !.pc = "idle", !.end = how]

\* TrackVisualClient.tsx:1030-1048  the model to show has been chosen
RunFinish(r) ==
  RunEnds([r EXCEPT !.isRefinedModel =
                      IsRefinedModel(r.modelUrl, r.previewModelUrl)],
          "shown")

\* server-side the page leaves the cache, the routes' requests and the
\* generation service alone: it only sees responses
RunFrame ==
  /\ last' = [NoLast EXCEPT !.op = "run"]
  /\ UNCHANGED <<store, init, inflight, promises, calls, dirty, timer, now,
                 nops, reqs, ups, norm>>
  /\ UNCHANGED disk
  /\ UNCHANGED <<ext, proxy, env, loads>>

\* TrackVisualClient.tsx:651-674  tryLoadMeshyModel is called and asks for the
\* prompt
RunStart ==
  /\ run.pc = "idle"
  /\ run.n < MaxRuns
  /\ run' = [NoRun EXCEPT !.pc = "prompting", !.n = run.n + 1]
  /\ RunFrame

\* TrackVisualClient.tsx:676-724  the prompt response arrives; the start
\* request of the preview is sent
PromptArrives(resp) ==
  /\ run.pc = "prompting"
  /\ run' =
       IF ~resp.ok THEN RunEnds(run, "promptError")
       ELSE LET r == [run EXCEPT
                        !.cached = IF resp.modelUrl # NoValue
                                     THEN resp.modelUrl ELSE NoUrl,
                        !.previewModelUrl = IF resp.modelUrl # NoValue
                                              THEN resp.modelUrl ELSE NoUrl]
            IN  IF resp.prompt = NoValue THEN RunEnds(r, "noPrompt")
                ELSE [r EXCEPT !.pc = "previewSubmitting",
                               !.prompt = resp.prompt,
                               !.subs = r.subs + 1,
                               !.trace = Append(r.trace, "PreviewSubmitting")]
  /\ RunFrame

\* TrackVisualClient.tsx:726-748  the response of the start route arrives
StartArrives(resp) ==
  /\ run.pc = "previewSubmitting"
  /\ run' =
       IF ~resp.ok THEN RunEnds(run, "startError")
       ELSE IF resp.id = NoValue THEN RunEnds(run, "noPreviewId")
       ELSE [run EXCEPT !.pc = "previewPolling", !.i = 0,
                        !.previewGenerationId = resp.id,
                        !.trace = Append(run.trace, "PreviewPolling")]
  /\ RunFrame

\* TrackVisualClient.tsx:897-938  after the preview loop: return when there is
\* no preview model URL, else send the refine request
AfterPreviewLoop(r) ==
  IF PreviewMissing(r.previewModelUrl) THEN RunEnds(r, "previewFailed")
  ELSE [r EXCEPT !.pc = "refineSubmitting", !.subs = r.subs + 1,
                 !.trace = Append(r.trace, "RefineSubmitting")]

\* TrackVisualClient.tsx:852-938  one iteration of the preview loop: wait,
\* query the status route, look at the response; the code after the loop
\* when the loop is left
PreviewPoll(resp) ==
  /\ run.pc = "previewPolling"
  /\ LoopGoesOn(run.i, PreviewMaxAttempts)
  /\ LET how == PollAttempt(resp)
         q == [run EXCEPT !.queries = run.queries + 1, !.polled = TRUE,
                          !.resp = resp]
     IN  run' =
           CASE how = "ready" ->
                  AfterPreviewLoop(
                    [q EXCEPT !.previewModelUrl = PickModelUrl(resp.json),
                              !.pout = "ready",
                              !.trace = Append(q.trace, "PreviewReady")])
             [] how = "failed" ->
                  AfterPreviewLoop([q EXCEPT !.pout = "failed"])
             [] OTHER ->
                  IF LoopGoesOn(run.i + 1, PreviewMaxAttempts)
                    THEN [q EXCEPT !.i = run.i + 1]
                    ELSE AfterPreviewLoop(
                           [q EXCEPT !.i = run.i + 1, !.pout = "timedout"])
  /\ RunFrame

\* TrackVisualClient.tsx:940-973,1022-1027  the response of the refine route
\* arrives
RefineArrives(resp) ==
  /\ run.pc = "refineSubmitting"
  /\ run' =
       IF ~resp.ok
         THEN RunFinish([run EXCEPT !.modelUrl = run.previewModelUrl,
                                    !.rsub = "rejected", !.queries = 0,
                                    !.resp = NoResponse])
       ELSE IF resp.id = NoValue
         THEN RunFinish([run EXCEPT !.modelUrl = run.previewModelUrl,
                                    !.rsub = "noId", !.queries = 0,
                                    !.resp = NoResponse])
       ELSE [run EXCEPT !.pc = "refinePolling", !.i = 0, !.rsub = "ok",
                        !.refineId = resp.id, !.queries = 0,
                        !.resp = NoResponse,
                        !.trace = Append(run.trace, "RefinePolling")]
  /\ RunFrame

\* TrackVisualClient.tsx:1015-1021  after the refine loop: fall back to the
\* preview model URL when the loop left modelUrl null
AfterRefineLoop(r) ==
  RunFinish(IF r.modelUrl = NoUrl
              THEN [r EXCEPT !.modelUrl = r.previewModelUrl]
              ELSE r)

\* TrackVisualClient.tsx:974-1021  one iteration of the refine loop and the
\* code after the loop when the loop is left
RefinePoll(resp) ==
  /\ run.pc = "refinePolling"
  /\ LoopGoesOn(run.i, RefineMaxAttempts)
  /\ LET how == PollAttempt(resp)
         q == [run EXCEPT !.queries = run.queries + 1, !.polled = TRUE,
                          !.resp = resp]
     IN  run' =
           CASE how = "ready" ->
                  AfterRefineLoop(
                    [q EXCEPT !.modelUrl = PickModelUrl(resp.json),
                              !.rout = "ready"])
             [] how = "failed" ->
                  AfterRefineLoop([q EXCEPT !.rout = "failed"])
             [] OTHER ->
                  IF LoopGoesOn(run.i + 1, RefineMaxAttempts)
                    THEN [q EXCEPT !.i = run.i + 1]
                    ELSE AfterRefineLoop(
                           [q EXCEPT !.i = run.i + 1, !.rout = "timedout"])
  /\ RunFrame

\* The page and the responses it can be given.
NextRun ==
  \/ RunStart
  \/ \E resp \in PromptResponses : PromptArrives(resp)
  \/ \E resp \in SubmitResponses : StartArrives(resp)
  \/ \E resp \in StatusResponses : PreviewPoll(resp)
  \/ \E resp \in SubmitResponses : RefineArrives(resp)
  \/ \E resp \in StatusResponses : RefinePoll(resp)

SpecRun == Init /\ [][NextRun]_vars

\* The event loop runs the timer of every poll iteration and every status
\* request is answered.
SpecRunLive ==
  /\ SpecRun
  /\ WF_vars(\E resp \in StatusResponses : PreviewPoll(resp))
  /\ WF_vars(\E resp \in StatusResponses : RefinePoll(resp))

(* --------------- the page: the guard of tryLoadMeshyModel -------------- *)

\* TrackVisualClient.tsx:651-674,1475-1480  tryLoadMeshyModel is called, up
\* to its first await. Both early returns are inside the try block whose
\* finally block clears modelLoadInProgressRef; a call that passes the guard
\* sets the ref and sends the prompt request.
tryLoadMeshyModel(hasId) ==
  /\ Len(loads.calls) < MaxLoads
  /\ loads' =
       IF ~hasId
         THEN [loads EXCEPT !.calls = Append(@, "noId"),
                            !.modelLoadInProgress = FALSE]
       ELSE IF loads.modelLoadInProgress
         THEN [loads EXCEPT !.calls = Append(@, "guarded"),
                            !.modelLoadInProgress = FALSE]
       ELSE [loads EXCEPT !.calls = Append(@, "running"),
                          !.modelLoadInProgress = TRUE,
                          !.fetches = @ + 1]
  /\ Step("none")
  /\ UNCHANGED <<store, init, inflight, promises, calls, dirty, timer, now,
                 nops, reqs, ups, run, norm, ext, proxy, env>>
  /\ UNCHANGED disk

\* TrackVisualClient.tsx:676-1480  a call that passed the guard comes to its
\* end, by return or by catch: the finally block clears the ref
LoadEnds(i) ==
  /\ i \in 1..Len(loads.calls)
  /\ loads.calls[i] = "running"
  /\ loads' = [loads EXCEPT !.calls[i] = "ended", !.modelLoadInProgress = FALSE]
  /\ Step("none")
  /\ UNCHANGED <<store, init, inflight, promises, calls, dirty, timer, now,
                 nops, reqs, ups, run, norm, ext, proxy, env>>
  /\ UNCHANGED disk

\* The calls of tryLoadMeshyModel of one TrackVisualClient, whose effect runs
\* again whenever its inputs change.
NextLoads ==
  \/ \E hasId \in BOOLEAN : tryLoadMeshyModel(hasId)
  \/ \E i \in 1..Len(loads.calls) : LoadEnds(i)

SpecLoads == Init /\ [][NextLoads]_vars

(* ------------------- the routes: job-id normalisation ------------------ *)

\* JSON values of the fields the routes look at. NoValue is undefined, "#7"
\* stands for the number 7, "" and " " are the empty and a blank string,
\* every other string is itself.
Truthy(v) == v \notin {NoValue, ""}
TypeofString(v) == v \notin {NoValue, "#7"}
Trim(v) == IF v = " " THEN "" ELSE v

\* a || b
JsOr(a, b) == IF Truthy(a) THEN a ELSE b

\* the values of the result field: undefined, a string, an object
ResultValues ==
  {NoObject} \cup
  [kind : {"string"}, s : {"r", ""}, id : {NoValue}, task_id : {NoValue}] \cup
  [kind : {"object"}, s : {NoValue}, id : {"d", NoValue}, task_id : {"e", NoValue}]

\* the values of the data field: undefined, an object
DataValues ==
  {NoObject} \cup
  [kind : {"object"}, s : {NoValue}, id : {"f", NoValue}, task_id : {"g", NoValue}]

\* the response bodies of the generation service's submission call
SubmitJsons ==
  [id : {"a", " ", "#7", NoValue}, task_id : {"b", NoValue},
   generation_id : {"c", NoValue}, result : ResultValues, data : DataValues]

\* what a route answers when it finds no id: 502 { error: "missing_id", raw }
MissingId == "missing_id"

\* stream/route.ts:391-408 and refine/route.ts:106-123  idCandidate
IdCandidate(j) ==
  LET pick(o) == JsOr(o.id, o.task_id)
      first == JsOr(JsOr(JsOr(JsOr(j.id, j.task_id), j.generation_id),
                         IF j.result.kind = "object" THEN pick(j.result) ELSE NoValue),
                    IF j.data.kind = "object" THEN pick(j.data) ELSE NoValue)
  IN  IF ~Truthy(first) /\ j.result.kind = "string" THEN j.result.s ELSE first

\* stream/route.ts:410,452-457 and refine/route.ts:125,142-147  the id the
\* route answers with, or missing_id
NormalizeId(j) ==
  LET c == IdCandidate(j)
  IN  IF TypeofString(c) /\ Trim(c) # "" THEN c ELSE MissingId

\* the generation service answers a submission with body j
SubmissionAnswered(j) ==
  /\ ~norm.got
  /\ norm' = [NoNorm EXCEPT !.got = TRUE, !.json = j]
  /\ last' = [NoLast EXCEPT !.op = "submitted"]
  /\ UNCHANGED <<store, init, inflight, promises, calls, dirty, timer, now,
                 nops, reqs, ups, run>>
  /\ UNCHANGED disk
  /\ UNCHANGED <<ext, proxy, env, loads>>

\* refine/route.ts:104-147  the normaliser of the refine route
RefineNormalizeId(j) ==
  LET pick(o) == JsOr(o.id, o.task_id)
      first == JsOr(JsOr(JsOr(JsOr(j.id, j.task_id), j.generation_id),
                         IF j.result.kind = "object" THEN pick(j.result) ELSE NoValue),
                    IF j.data.kind = "object" THEN pick(j.data) ELSE NoValue)
      c == IF ~Truthy(first) /\ j.result.kind = "string" THEN j.result.s ELSE first
  IN  IF TypeofString(c) /\ Trim(c) # "" THEN c ELSE MissingId

\* a normaliser without the step for { result: "<generation-id>" }
RigNormalizeIdNoResultString(j) ==
  LET pick(o) == JsOr(o.id, o.task_id)
      c == JsOr(JsOr(JsOr(JsOr(j.id, j.task_id), j.generation_id),
                     IF j.result.kind = "object" THEN pick(j.result) ELSE NoValue),
                IF j.data.kind = "object" THEN pick(j.data) ELSE NoValue)
  IN  IF TypeofString(c) /\ Trim(c) # "" THEN c ELSE MissingId

\* rig/route.ts:153-173,201-208  the normaliser of the rig route
RigNormalizeId(j) ==
  LET pick(o) == JsOr(o.id, o.task_id)
      first == JsOr(JsOr(JsOr(JsOr(j.id, j.task_id), j.generation_id),
                         IF j.result.kind = "object" THEN pick(j.result) ELSE NoValue),
                    IF j.data.kind = "object" THEN pick(j.data) ELSE NoValue)
      c == IF ~Truthy(first) /\ j.result.kind = "string" THEN j.result.s ELSE first
  IN  IF TypeofString(c) /\ Trim(c) # "" THEN c ELSE MissingId

\* stream/route.ts:389-457, refine/route.ts:104-147, rig/route.ts:153-208
\* each of the three routes normalises the body it was given
Normalize ==
  /\ norm.got
  /\ norm.out = NoValue
  /\ norm' = [norm EXCEPT !.out = NormalizeId(norm.json),
                          !.refine = RefineNormalizeId(norm.json),
                          !.rig = RigNormalizeId(norm.json)]
  /\ last' = [NoLast EXCEPT !.op = "normalized"]
  /\ UNCHANGED <<store, init, inflight, promises, calls, dirty, timer, now,
                 nops, reqs, ups, run>>
  /\ UNCHANGED disk
  /\ UNCHANGED <<ext, proxy, env, loads>>

\* The normaliser applied to every body of SubmitJsons.
NextNormalize ==
  \/ \E j \in SubmitJsons : SubmissionAnswered(j)
  \/ Normalize

SpecNormalize == Init /\ [][NextNormalize]_vars

(* ---------------- the routes: start and refine submissions ------------- *)

Prompts == {"A", "B"}
Tracks == {"t1"}
PreviewIds == {"p1"}
\* the ids the generation service gives to the calls it accepts, by call
JobIds == <<"j1", "j2", "j3", "j4", "j5", "j6">>

\* the cache lifetimes of the routes in units of the shortest of them:
\* start/route MESHY_START_CACHE_TTL_MS (5 min), refine/route
\* MESHY_REFINE_CACHE_TTL_MS (10 min), status/route MESHY_STATUS_CACHE_TTL_MS
\* (15 s) are short; the bindings MESHY_PREVIEW_CACHE_TTL_MS,
\* MESHY_REFINEMENT_CACHE_TTL_MS (24 h), MESHY_ID_TO_TRACK_TTL_MS (48 h) and
\* MESHY_MODEL_URL_TTL_MS (7 d) outlive every run of the model
StartCacheTtl == 1
RefineCacheTtl == 1
StatusCacheTtl == 1
BindingTtl == 5

\* stream/route.ts:311-313  cacheKey of the start route
StartCacheKey(mode, prompt, previewId) ==
  "meshy:start:" \o mode \o ":" \o prompt \o
    (IF mode = "refine" THEN ":" \o previewId ELSE "")

\* stream/route.ts:352,358,416,439 and refine/route.ts:47,130  the other keys
PreviewByTrackKey(sid) == "meshy:previewByTrack:" \o sid
PreviewByPromptKey(prompt) == "meshy:previewByPrompt:" \o prompt
PreviewKey(id) == "meshy:preview:" \o id
GenToTrackKey(id) == "meshy:genToTrack:" \o id
RefineCacheKey(previewId) == "meshy:refine:" \o previewId
RefinementKey(previewId) == "meshy:refinement:" \o previewId

\* a response whose body is the route's own, and a handler that has not been
\* given a response of the generation service
NoBody == [kind |-> "own"]
NoUpstream == [status |-> 0]

\* a request a route has received and not answered, and one it has answered
NewRequest(route, mode, prompt, previewId, sid) ==
  [route |-> route, mode |-> mode, prompt |-> prompt, previewId |-> previewId,
   spotifyId |-> sid, state |-> "waiting", how |-> "none", p |-> 0,
   status |-> 0, id |-> NoValue, bound |-> FALSE, peers |-> {},
   body |-> NoBody, up |-> NoUpstream]

\* the requests that are waiting for the generation service
Waiting == {i \in 1..Len(reqs) : reqs[i].state = "waiting"}

\* NextResponse.json(body, { status })
Respond(r, status, id) == [r EXCEPT !.state = "done", !.status = status, !.id = id]

\* NextResponse.json(json, { status }) with the body of the generation service
RespondJson(r, status, json) ==
  [Respond(r, status, NoValue) EXCEPT !.body = [kind |-> "upstream", json |-> json]]

\* the handler of request r is given the response val of the generation
\* service, from compute or from the cache
Given(r, val) == [r EXCEPT !.up = val]

\* stream/route.ts:386-457  the start route once cacheGetOrSet has returned
\* val to the request r: the answer and the bindings. Yields the memory and
\* the answered request.
StartRouteFinish(m, r, val, t) ==
  LET id == NormalizeId(val.json)
      m1 == CacheSet(m, PreviewKey(id), [prompt |-> r.prompt, timestamp |-> t],
                     BindingTtl, t)
      m2 == CacheSet(m1, PreviewByPromptKey(r.prompt), id, BindingTtl, t)
      m3 == IF r.spotifyId # NoValue
              THEN CacheSet(m2, PreviewByTrackKey(r.spotifyId), id, BindingTtl, t)
              ELSE m2
      m4 == IF r.mode = "preview" THEN m3 ELSE m
      m5 == IF r.spotifyId # NoValue
              THEN CacheSet(m4, GenToTrackKey(id), r.spotifyId, BindingTtl, t)
              ELSE m4
  IN  IF val.status < 200 \/ val.status >= 300
        THEN [m |-> m, r |-> RespondJson(Given(r, val), val.status, val.json)]
      ELSE IF id = MissingId
        THEN [m |-> m, r |-> Respond(Given(r, val), 502, NoValue)]
      ELSE [m |-> m5, r |-> Respond(Given(r, val), 200, id)]

\* refine/route.ts:101-147  the refine route once cacheGetOrSet has returned
RefineRouteFinish(m, r, val, t) ==
  LET id == NormalizeId(val.json)
  IN  IF val.status < 200 \/ val.status >= 300
        THEN [m |-> m, r |-> RespondJson(Given(r, val), val.status, val.json)]
      ELSE IF id = MissingId
        THEN [m |-> m, r |-> Respond(Given(r, val), 502, NoValue)]
      ELSE [m |-> CacheSet(m, RefinementKey(r.previewId), id, BindingTtl, t),
            r |-> Respond(Given(r, val), 200, id)]

RouteFinish(m, r, val, t) ==
  IF r.route = "start" THEN StartRouteFinish(m, r, val, t)
                       ELSE RefineRouteFinish(m, r, val, t)

\* a fast path that looks the prompt up before the track
StartFastPathPromptFirst(m, mode, prompt, previewId, sid, t) ==
  LET hit(c) == c.found /\ Truthy(c.value) /\ TypeofString(c.value)
      c0 == CacheGet(m, RefinementKey(previewId), t)
      c2 == CacheGet(m, PreviewByPromptKey(prompt), t)
      c1 == CacheGet(c2.m, PreviewByTrackKey(sid), t)
  IN  IF mode = "refine"
        THEN [m |-> c0.m, found |-> hit(c0), id |-> c0.value]
      ELSE IF hit(c2)
        THEN [m |-> c2.m, found |-> TRUE, id |-> c2.value]
      ELSE IF sid # NoValue
        THEN [m |-> c1.m, found |-> hit(c1), id |-> c1.value]
      ELSE [m |-> c2.m, found |-> FALSE, id |-> c2.value]

\* stream/route.ts:336-362  the fast path of the start route on memory m:
\* the id already bound to these inputs, if there is one
StartFastPath(m, mode, prompt, previewId, sid, t) ==
  LET hit(c) == c.found /\ Truthy(c.value) /\ TypeofString(c.value)
      c0 == CacheGet(m, RefinementKey(previewId), t)
      c1 == CacheGet(m, PreviewByTrackKey(sid), t)
      c2 == CacheGet(IF sid # NoValue THEN c1.m ELSE m,
                     PreviewByPromptKey(prompt), t)
  IN  IF mode = "refine"
        THEN [m |-> c0.m, found |-> hit(c0), id |-> c0.value]
      ELSE IF sid # NoValue /\ hit(c1)
        THEN [m |-> c1.m, found |-> TRUE, id |-> c1.value]
      ELSE [m |-> c2.m, found |-> hit(c2), id |-> c2.value]

\* the key under which a route hands its submission to cacheGetOrSet
RouteCacheKey(route, mode, prompt, previewId, sid) ==
  IF route = "start" THEN StartCacheKey(mode, prompt, previewId)
                     ELSE RefineCacheKey(previewId)

RouteCacheTtl(route) == IF route = "start" THEN StartCacheTtl ELSE RefineCacheTtl

\* stream/route.ts:336-362: the start route looks its bindings up;
\* refine/route.ts:47-79: the refine route looks nothing up
RouteFastPath(m, route, mode, prompt, previewId, sid, t) ==
  IF route = "start" THEN StartFastPath(m, mode, prompt, previewId, sid, t)
                     ELSE [m |-> m, found |-> FALSE, id |-> NoValue]

\* a binding for the inputs of the request is live in the table
BindingLive(tbl, route, mode, prompt, previewId, sid, t) ==
  LET live(k) == k \in DOMAIN tbl /\ ~Expired(tbl[k], t)
  IN  IF mode = "refine" THEN live(RefinementKey(previewId))
      ELSE live(PreviewByPromptKey(prompt))
             \/ (sid # NoValue /\ live(PreviewByTrackKey(sid)))

\* stream/route.ts:268-378 and refine/route.ts:13-93  a request arrives at a
\* route: the fast path, then cacheGetOrSet up to its await. A cached
\* {status, json} is handed to the rest of the handler at once; a running
\* submission is joined; otherwise compute() sends the submission.
Arrives(route, mode, prompt, previewId, sid) ==
  /\ LET g == GetStore(Mem, init, file, now, TRUE)
         fp == RouteFastPath(g.m, route, mode, prompt, previewId, sid, now)
         k == RouteCacheKey(route, mode, prompt, previewId, sid)
         c == CacheGet(fp.m, k, now)
         id == Len(promises) + 1
         r == [NewRequest(route, mode, prompt, previewId, sid) EXCEPT
                 !.peers = Waiting,
                 !.bound = BindingLive(g.m.store, route, mode, prompt,
                                       previewId, sid, now)]
     IN  /\ AfterGetStore(g)
         /\ IF fp.found
              THEN /\ SetMem(fp.m)
                   /\ reqs' = Append(reqs, Respond([r EXCEPT !.how = "fast"], 200, fp.id))
                   /\ UNCHANGED <<inflight, promises, ups>>
            ELSE IF c.found
              THEN LET f == RouteFinish(c.m, [r EXCEPT !.how = "hit"], c.value, now)
                   IN  /\ SetMem(f.m)
                       /\ reqs' = Append(reqs, f.r)
                       /\ UNCHANGED <<inflight, promises, ups>>
            ELSE IF InProgress(inflight, k)
              THEN /\ SetMem(c.m)
                   /\ reqs' = Append(reqs, [r EXCEPT !.how = "join", !.p = inflight[k]])
                   /\ UNCHANGED <<inflight, promises, ups>>
            ELSE LET sc == StartCompute(inflight, k, RouteCacheTtl(route), id, FALSE)
                 IN  /\ SetMem(c.m)
                     /\ reqs' = Append(reqs, [r EXCEPT !.how = "lead", !.p = id])
                     /\ promises' = Append(promises, sc.promise)
                     /\ inflight' = sc.inflight
                     /\ ups' = Append(ups, [kind |-> mode, key |-> k, p |-> id])
  /\ Step("none")
  /\ UNCHANGED <<calls, now, nops, run, norm>>
  /\ UNCHANGED disk
  /\ UNCHANGED <<ext, proxy, env, loads>>

\* a request arrives at a route while fewer than MaxReqs have arrived
Request(route, mode, prompt, previewId, sid) ==
  /\ Len(reqs) < MaxReqs
  /\ Arrives(route, mode, prompt, previewId, sid)

\* the rest of the handler for every request that awaits promise p, in the
\* order the requests came
RECURSIVE FinishAll(_, _, _, _, _, _)
FinishAll(m, rs, i, p, val, t) ==
  IF i > Len(rs) THEN [m |-> m, reqs |-> rs]
  ELSE IF rs[i].state = "waiting" /\ rs[i].p = p
    THEN LET f == RouteFinish(m, rs[i], val, t)
         IN  FinishAll(f.m, [rs EXCEPT ![i] = f.r], i + 1, p, val, t)
  ELSE FinishAll(m, rs, i + 1, p, val, t)

\* the call to the generation service that promise p stands for
CallOf(p) == CHOOSE u \in 1..Len(ups) : ups[u].p = p

\* the body { id: x }
IdBody(x) == [EmptyBody EXCEPT !.id = x]
\* the body { result: x }
ResultBody(x) ==
  [EmptyBody EXCEPT !.result = [kind |-> "string", s |-> x, id |-> NoValue,
                                task_id |-> NoValue]]

\* what the generation service may answer to its u-th submission: a new job
\* in either shape, a body without id, an error
SubmitAnswers(u) ==
  {[status |-> 200, json |-> IdBody(JobIds[u])],
   [status |-> 200, json |-> EmptyBody],
   [status |-> 500, json |-> EmptyBody]}

\* stream/route.ts:367-457 and refine/route.ts:82-147, cache.ts:167-173
\* the generation service answers submission p: compute returns
\* {status, json}, cacheGetOrSet stores it and clears the registration, and
\* every handler that awaited it runs to its response.
SubmissionReturns(p, ans) ==
  /\ p \in 1..Len(promises)
  /\ promises[p].state = "pending"
  /\ ups[CallOf(p)].kind # "status"
  /\ LET k == promises[p].key
         g == GetStore(Mem, init, file, now, TRUE)
         m == CacheSet(g.m, k, ans, promises[p].ttl, now)
         f == FinishAll(m, reqs, 1, p, ans, now)
     IN  /\ AfterGetStore(g)
         /\ SetMem(f.m)
         /\ reqs' = f.reqs
         /\ inflight' = SettleCleanup(inflight, k)
         /\ promises' = [promises EXCEPT ![p].state = "resolved", ![p].val = ans]
  /\ Step("none")
  /\ UNCHANGED <<calls, now, nops, ups, run, norm>>
  /\ UNCHANGED disk
  /\ UNCHANGED <<ext, proxy, env, loads>>

\* stream/route.ts:458-463, refine/route.ts:148-153, status/route.ts:165-170,
\* cache.ts:170-173  fetch (or res.json() of a submission) rejects: nothing is stored, the registration is
\* cleared and every handler that awaited p answers 500
SubmissionFails(p) ==
  /\ p \in 1..Len(promises)
  /\ promises[p].state = "pending"
  /\ inflight' = SettleCleanup(inflight, promises[p].key)
  /\ promises' = [promises EXCEPT ![p].state = "rejected"]
  /\ reqs' = [i \in 1..Len(reqs) |->
                IF reqs[i].state = "waiting" /\ reqs[i].p = p
                  THEN Respond(reqs[i], 500, NoValue) ELSE reqs[i]]
  /\ Step("none")
  /\ UNCHANGED <<store, init, dirty, timer, calls, now, nops, ups, run, norm>>
  /\ UNCHANGED disk
  /\ UNCHANGED <<ext, proxy, env, loads>>

\* Date.now() advances while the routes serve requests
RouteTick ==
  /\ now < MaxTime
  /\ now' = now + 1
  /\ Step("none")
  /\ UNCHANGED <<store, init, inflight, promises, calls, dirty, timer, nops>>
  /\ UNCHANGED orch
  /\ UNCHANGED disk

\* Preview submissions through the start route.
NextPreview ==
  \/ \E prompt \in Prompts, sid \in Tracks \cup {NoValue} :
       Request("start", "preview", prompt, NoValue, sid)
  \/ \E p \in 1..Len(promises) : \E ans \in SubmitAnswers(CallOf(p)) : SubmissionReturns(p, ans)
  \/ \E p \in 1..Len(promises) : SubmissionFails(p)
  \/ RouteTick

SpecPreview == Init /\ [][NextPreview]_vars

\* the bindings of the preview jobs expire: Date.now() advances by the
\* lifetime of a binding
Sleep ==
  /\ now < BindingTtl
  /\ now' = now + BindingTtl
  /\ Step("none")
  /\ UNCHANGED <<store, init, inflight, promises, calls, dirty, timer, nops>>
  /\ UNCHANGED orch
  /\ UNCHANGED disk

\* Preview submissions through the start route, one request more than in
\* SpecPreview, over the lifetime of the bindings.
NextEnsure ==
  \/ \E prompt \in Prompts, sid \in Tracks \cup {NoValue} :
       /\ Len(reqs) < MaxReqs + 1
       /\ Arrives("start", "preview", prompt, NoValue, sid)
  \/ \E p \in 1..Len(promises) : \E ans \in SubmitAnswers(CallOf(p)) : SubmissionReturns(p, ans)
  \/ Sleep

SpecEnsure == Init /\ [][NextEnsure]_vars

\* Refine submissions through the refine route and the start route.
NextRefine ==
  \/ \E route \in {"start", "refine"}, previewId \in PreviewIds :
       Request(route, "refine", "A", previewId, NoValue)
  \/ \E p \in 1..Len(promises) : \E ans \in SubmitAnswers(CallOf(p)) : SubmissionReturns(p, ans)
  \/ \E p \in 1..Len(promises) : SubmissionFails(p)
  \/ RouteTick

SpecRefine == Init /\ [][NextRefine]_vars

(* ------------------------ the routes: job status ----------------------- *)

\* the job ids the pollers ask about
StatusIds == {"j1", "j2"}

\* status/route.ts:31  cacheKey
StatusKey(id) == "meshy:status:" \o id
\* status/route.ts:158
ModelUrlKey(trackId) == "meshy:modelUrl:" \o trackId

\* the body {} that res.json().catch(() => ({})) leaves
EmptyStatus == [status |-> NoValue, model_url |-> NoValue, glb |-> NoValue,
                spotifyId |-> NoValue, message |-> NoValue]

\* no answer of the generation service
NoAnswer == [status |-> 0, json |-> EmptyStatus]

\* what the generation service may answer to a status call: a finished job
\* that echoes the track and one that does not, a job still running, a failed
\* job that carries the URL of what it had made, a routing error, another 404
StatusAnswers ==
  {[status |-> 200, json |-> [EmptyStatus EXCEPT !.status = "SUCCEEDED",
                                !.glb = "u1", !.spotifyId = "t1"]],
   [status |-> 200, json |-> [EmptyStatus EXCEPT !.status = "SUCCEEDED",
                                !.model_url = "u2"]],
   [status |-> 200, json |-> [EmptyStatus EXCEPT !.status = "PENDING"]],
   [status |-> 200, json |-> [EmptyStatus EXCEPT !.status = "FAILED",
                                !.model_url = "u2", !.spotifyId = "t1"]],
   [status |-> 404, json |-> [EmptyStatus EXCEPT !.message = "NoMatchingRoute"]],
   [status |-> 404, json |-> [EmptyStatus EXCEPT !.message = "Not Found"]]}

\* a compute that retries on the legacy path after any 404
NeedsFallbackOnAny404(ans) == ans.status = 404

\* status/route.ts:48-52  res.status === 404 && typeof json?.message ===
\* "string" && /NoMatchingRoute/i.test(json.message)
NeedsFallback(ans) ==
  /\ ans.status = 404
  /\ TypeofString(ans.json.message)
  /\ ans.json.message \in {"NoMatchingRoute", "nomatchingroute"}

\* status/route.ts:119-149  the model URL of a status body: model_url, then
\* the glb of model_urls
StatusModelUrl(j) == JsOr(j.model_url, IF TypeofString(j.glb) THEN j.glb ELSE NoValue)

\* status/route.ts:152-156  typeof modelUrl === "string" && modelUrl &&
\* typeof trackId === "string"
PersistsModelUrl(val) ==
  /\ TypeofString(StatusModelUrl(val.json))
  /\ Truthy(StatusModelUrl(val.json))
  /\ TypeofString(val.json.spotifyId)

\* status/route.ts:115-164  the status route once cacheGetOrSet has returned
\* val to the request r: a 2xx body with a model URL and a track id is
\* stored under the track
StatusRouteFinish(m, r, val, t) ==
  LET modelUrl == StatusModelUrl(val.json)
      trackId == val.json.spotifyId
  IN  IF val.status < 200 \/ val.status >= 300
        THEN [m |-> m, r |-> RespondJson(Given(r, val), val.status, val.json)]
      ELSE IF PersistsModelUrl(val)
        THEN [m |-> CacheSet(m, ModelUrlKey(trackId), modelUrl, BindingTtl, t),
              r |-> Respond(Given(r, val), 200, modelUrl)]
      ELSE [m |-> m, r |-> Respond(Given(r, val), 200, modelUrl)]

\* what the status route did with the {status, json} it was handed, for the
\* record: the key it stored a model URL under, if it stored one
StatusRecord(val) ==
  [NoLast EXCEPT !.op = "status",
                 !.key = IF (val.status >= 200 /\ val.status < 300) /\ PersistsModelUrl(val)
                           THEN ModelUrlKey(val.json.spotifyId) ELSE "-",
                 !.res = val.json.status,
                 !.err = val.status < 200 \/ val.status >= 300]

\* the calls made to the generation service for promise p
CallsOf(p) == {u \in 1..Len(ups) : ups[u].p = p}

\* a call to the status endpoint of the generation service, with the answer
\* that made compute call and what the cache held for the key at the call
StatusCall(k, p, path, after) ==
  [kind |-> "status", key |-> k, p |-> p, path |-> path, after |-> after,
   live |-> k \in DOMAIN store /\ ~Expired(store[k], now),
   running |-> InProgress(inflight, k)]

\* status/route.ts:5-44  a poller's request arrives: cacheGetOrSet up to its
\* await; compute() calls the primary path of the generation service
StatusRequest(id) ==
  /\ Len(reqs) < MaxReqs
  /\ LET g == GetStore(Mem, init, file, now, TRUE)
         k == StatusKey(id)
         c == CacheGet(g.m, k, now)
         p == Len(promises) + 1
         r == [NewRequest("status", "status", NoValue, id, NoValue) EXCEPT
                 !.peers = Waiting,
                 !.bound = k \in DOMAIN g.m.store /\ ~Expired(g.m.store[k], now)]
     IN  /\ AfterGetStore(g)
         /\ IF c.found
              THEN LET f == StatusRouteFinish(c.m, [r EXCEPT !.how = "hit"], c.value, now)
                   IN  /\ SetMem(f.m)
                       /\ reqs' = Append(reqs, f.r)
                       /\ last' = StatusRecord(c.value)
                       /\ UNCHANGED <<inflight, promises, ups>>
            ELSE IF InProgress(inflight, k)
              THEN /\ SetMem(c.m)
                   /\ reqs' = Append(reqs, [r EXCEPT !.how = "join", !.p = inflight[k]])
                   /\ Step("none")
                   /\ UNCHANGED <<inflight, promises, ups>>
            ELSE LET sc == StartCompute(inflight, k, StatusCacheTtl, p, FALSE)
                 IN  /\ SetMem(c.m)
                     /\ reqs' = Append(reqs, [r EXCEPT !.how = "lead", !.p = p])
                     /\ promises' = Append(promises, sc.promise)
                     /\ inflight' = sc.inflight
                     /\ ups' = Append(ups, StatusCall(k, p, "primary", NoAnswer))
                     /\ Step("none")
  /\ UNCHANGED <<calls, now, nops, run, norm>>
  /\ UNCHANGED disk
  /\ UNCHANGED <<ext, proxy, env, loads>>

\* the rest of the status handler for every request that awaits promise p
RECURSIVE StatusFinishAll(_, _, _, _, _, _)
StatusFinishAll(m, rs, i, p, val, t) ==
  IF i > Len(rs) THEN [m |-> m, reqs |-> rs]
  ELSE IF rs[i].state = "waiting" /\ rs[i].p = p
    THEN LET f == StatusRouteFinish(m, rs[i], val, t)
         IN  StatusFinishAll(f.m, [rs EXCEPT ![i] = f.r], i + 1, p, val, t)
  ELSE StatusFinishAll(m, rs, i + 1, p, val, t)

\* status/route.ts:41-164, cache.ts:167-173  the generation service answers
\* the call that compute p waits for. A routing error on the primary path
\* makes compute call the legacy path; any other answer is what compute
\* returns: cacheGetOrSet stores it and clears the registration, and every
\* handler that awaited it runs to its response.
StatusReturns(p, ans) ==
  /\ p \in 1..Len(promises)
  /\ promises[p].state = "pending"
  /\ ups[CallOf(p)].kind = "status"
  /\ LET k == promises[p].key
         legacy == Cardinality(CallsOf(p)) > 1
         g == GetStore(Mem, init, file, now, TRUE)
         m == CacheSet(g.m, k, ans, promises[p].ttl, now)
         f == StatusFinishAll(m, reqs, 1, p, ans, now)
     IN  IF ~legacy /\ NeedsFallback(ans)
           THEN /\ ups' = Append(ups, StatusCall(k, p, "legacy", ans))
                /\ Step("none")
                /\ UNCHANGED <<store, init, dirty, timer, inflight, promises, reqs>>
           ELSE /\ AfterGetStore(g)
                /\ SetMem(f.m)
                /\ reqs' = f.reqs
                /\ inflight' = SettleCleanup(inflight, k)
                /\ promises' = [promises EXCEPT ![p].state = "resolved", ![p].val = ans]
                /\ last' = StatusRecord(ans)
                /\ UNCHANGED ups
  /\ UNCHANGED <<calls, now, nops, run, norm>>
  /\ UNCHANGED disk
  /\ UNCHANGED <<ext, proxy, env, loads>>

\* Pollers of the status route.
NextStatus ==
  \/ \E id \in StatusIds : StatusRequest(id)
  \/ \E p \in 1..Len(promises) : \E ans \in StatusAnswers : StatusReturns(p, ans)
  \/ \E p \in 1..Len(promises) : SubmissionFails(p)
  \/ RouteTick

SpecStatus == Init /\ [][NextStatus]_vars

(* ------------------- the asset-reference extractors -------------------- *)

\* the values of the url and of the format/type/mimeType hint of an asset
AssetUrlValues == {NoValue, "a.glb", "a.obj"}
AssetHintValues == {NoValue, "GLB"}
Assets == [url : AssetUrlValues, format : AssetHintValues]

\* the lists of at most n assets
RECURSIVE AssetLists(_)
AssetLists(n) ==
  IF n = 0 THEN {<<>>}
  ELSE AssetLists(n - 1) \cup
       {Append(l, a) : l \in {x \in AssetLists(n - 1) : Len(x) = n - 1}, a \in Assets}

\* a model_urls field that is undefined
NoModelUrls == [kind |-> "undefined", glb |-> NoValue, gltf |-> NoValue]
\* a list field that is undefined
NoList == [isArray |-> FALSE, items |-> <<>>]

\* the 2xx bodies of the generation service's status call, with the fields
\* the extractors look at; modelUrls, GLB and GLTF are looked at as model_urls,
\* glb and gltf are and stand with them
StatusBodies ==
  [status : {"pending"},
   model_url : {NoValue, "", "m1"},
   modelUrl : {NoValue, "m2"},
   model_urls : {NoModelUrls} \cup
                [kind : {"object"}, glb : {NoValue, "", "g1"}, gltf : {NoValue, "g2"}],
   assets : {NoList} \cup [isArray : {TRUE}, items : AssetLists(MaxAssets)],
   files : {NoList, [isArray |-> TRUE,
                     items |-> <<[url |-> "a.obj", format |-> NoValue]>>]}]

\* String.prototype.endsWith(".glb") || endsWith(".gltf") on the URLs
EndsWithModelFormat(u) == u \in {"a.glb"}
\* (format ?? type ?? mimeType ?? "").toString().toLowerCase() includes "glb"
\* or "gltf"
HintIsModelFormat(f) == f \in {"GLB", "glb", "gltf"}

\* null || x, with null for a falsy left side
OrNull(a, b) == IF a \notin {NoUrl, NoValue, ""} THEN a ELSE b

\* TrackVisualClient.tsx:797-818  tryModelUrls of the page
PageTryModelUrls(o) ==
  IF o.kind # "object" THEN NoUrl
  ELSE LET glb == IF TypeofString(o.glb) THEN o.glb ELSE NoUrl
           gltf == IF TypeofString(o.gltf) THEN o.gltf ELSE NoUrl
       IN  OrNull(glb, OrNull(gltf, NoUrl))

\* TrackVisualClient.tsx:822-834  fromAssets: the first asset whose URL or
\* hint names a model format, or else the first asset that has a URL
FromAssets(arr) ==
  LET hasUrl(a) == TypeofString(a.url) /\ Truthy(a.url)
      match == {i \in 1..Len(arr) :
                  hasUrl(arr[i]) /\ (EndsWithModelFormat(arr[i].url)
                                       \/ HintIsModelFormat(arr[i].format))}
      any == {i \in 1..Len(arr) : TypeofString(arr[i].url)}
      min(S) == CHOOSE i \in S : \A k \in S : i <= k
  IN  IF match # {} THEN arr[min(match)].url
      ELSE IF any # {} THEN arr[min(any)].url
      ELSE NoUrl

\* TrackVisualClient.tsx:779-847  pickModelUrl
pickModelUrl(j) ==
  IF TypeofString(j.model_url) THEN j.model_url
  ELSE IF TypeofString(j.modelUrl) THEN j.modelUrl
  ELSE LET direct == PageTryModelUrls(j.model_urls)
           a == IF j.assets.isArray THEN FromAssets(j.assets.items) ELSE NoUrl
           f == IF j.files.isArray THEN FromAssets(j.files.items) ELSE NoUrl
       IN  OrNull(direct, OrNull(a, OrNull(f, NoUrl)))

\* status/route.ts:119-126  tryModelUrls of the status route
RouteTryModelUrls(o) ==
  IF o.kind # "object" THEN NoUrl
  ELSE IF TypeofString(o.glb) THEN o.glb
  ELSE IF TypeofString(o.gltf) THEN o.gltf
  ELSE NoUrl

\* status/route.ts:132-149  the first asset whose URL or hint names a model
\* format
RouteFromAssets(arr) ==
  LET match == {i \in 1..Len(arr) :
                  /\ TypeofString(arr[i].url) /\ Truthy(arr[i].url)
                  /\ EndsWithModelFormat(arr[i].url) \/ HintIsModelFormat(arr[i].format)}
  IN  IF match # {} THEN arr[CHOOSE i \in match : \A k \in match : i <= k].url
      ELSE NoUrl

\* status/route.ts:127-149  modelUrl of the status route
RouteModelUrl(j) ==
  LET direct == OrNull(OrNull(j.model_url, j.modelUrl), NoUrl)
      urls == OrNull(RouteTryModelUrls(j.model_urls), NoUrl)
      a == IF j.assets.isArray THEN RouteFromAssets(j.assets.items) ELSE NoUrl
  IN  OrNull(direct, OrNull(urls, a))

\* the generation service answers a status call with body j
StatusBodyArrives(j) ==
  /\ ~ext.got
  /\ ext' = [got |-> TRUE, done |-> FALSE, json |-> j, page |-> NoUrl, route |-> NoUrl]
  /\ Step("none")
  /\ UNCHANGED <<store, init, inflight, promises, calls, dirty, timer, now,
                 nops, reqs, ups, run, norm, proxy, env, loads>>
  /\ UNCHANGED disk

\* TrackVisualClient.tsx:866 and status/route.ts:127-149  the page and the
\* status route extract the model URL of the body
Extract ==
  /\ ext.got /\ ~ext.done
  /\ ext' = [ext EXCEPT !.done = TRUE, !.page = pickModelUrl(ext.json),
                        !.route = RouteModelUrl(ext.json)]
  /\ Step("none")
  /\ UNCHANGED <<store, init, inflight, promises, calls, dirty, timer, now,
                 nops, reqs, ups, run, norm, proxy, env, loads>>
  /\ UNCHANGED disk

\* The extractors applied to every body of StatusBodies.
NextExtract ==
  \/ \E j \in StatusBodies : StatusBodyArrives(j)
  \/ Extract

SpecExtract == Init /\ [][NextExtract]_vars

(* ------------------ the routes: the missing credential ----------------- *)

\* the values of process.env.MESHY_API_KEY
EnvValues == {NoValue, "", ApiKey}

\* a test of the credential that takes an empty one for a credential
HasApiKeyDefined(k) == k # NoValue

\* stream/route.ts:297, refine/route.ts:29, status/route.ts:13  !apiKey
HasApiKey(k) == Truthy(k)

\* the operator of the service sets or removes the credential
Configure(k) ==
  /\ env' = k
  /\ env # k
  /\ Step("none")
  /\ UNCHANGED <<store, init, inflight, promises, calls, dirty, timer, now,
                 nops, reqs, ups, run, norm, ext, proxy, loads>>
  /\ UNCHANGED disk

\* stream/route.ts:297-304, refine/route.ts:29-37, status/route.ts:13-21
\* the handler returns 500 { error: "Missing MESHY_API_KEY" }
MissingKey(route, mode, prompt, previewId, sid) ==
  /\ Len(reqs) < MaxReqs
  /\ reqs' = Append(reqs,
       Respond([NewRequest(route, mode, prompt, previewId, sid) EXCEPT
                  !.peers = Waiting, !.how = "nokey"], 500, NoValue))
  /\ Step("none")
  /\ UNCHANGED <<store, init, inflight, promises, calls, dirty, timer, now,
                 nops, ups, run, norm, ext, proxy, env, loads>>
  /\ UNCHANGED disk

\* stream/route.ts:268-378 and refine/route.ts:13-93  POST of the start route
\* and of the refine route under the credential the process has
Post(route, mode, prompt, previewId, sid) ==
  IF HasApiKey(env) THEN Request(route, mode, prompt, previewId, sid)
                    ELSE MissingKey(route, mode, prompt, previewId, sid)

\* status/route.ts:5-44  GET of the status route under the credential the
\* process has
Get(id) ==
  IF HasApiKey(env) THEN StatusRequest(id)
                    ELSE MissingKey("status", "status", NoValue, id, NoValue)

\* The three routes while the credential comes and goes.
NextConfig ==
  \/ \E k \in EnvValues : Configure(k)
  \/ Post("start", "preview", "A", NoValue, "t1")
  \/ Post("refine", "refine", "A", "p1", NoValue)
  \/ Get("j1")
  \/ \E p \in 1..Len(promises) : \E ans \in SubmitAnswers(CallOf(p)) : SubmissionReturns(p, ans)
  \/ \E p \in 1..Len(promises) : \E ans \in StatusAnswers : StatusReturns(p, ans)
  \/ \E p \in 1..Len(promises) : SubmissionFails(p)

SpecConfig == Init /\ [][NextConfig]_vars

(* ------------------ the routes: upstream error bodies ------------------ *)

\* a body of the generation service, or of a gateway before it, that is not
\* JSON
NotJson == [text |-> "<html>"]

\* stream/route.ts:367-377,458-463, refine/route.ts:83-92,148-153,
\* status/route.ts:41-66, cache.ts:167-173  the generation service answers
\* call p with the given status and a body that is not JSON. In a submission
\* res.json() rejects: compute rejects, nothing is stored and every handler
\* answers 500 with the message of the error. In a status query
\* res.json().catch(() => ({})) makes the body {}, which compute returns.
UpstreamNotJson(p, status) ==
  /\ p \in 1..Len(promises)
  /\ promises[p].state = "pending"
  /\ LET k == promises[p].key
         seen == [status |-> status, json |-> NotJson]
         fail(r) == Respond(Given(r, seen), 500, NoValue)
         val == [status |-> status, json |-> EmptyStatus]
         g == GetStore(Mem, init, file, now, TRUE)
         m == CacheSet(g.m, k, val, promises[p].ttl, now)
         f == StatusFinishAll(m, reqs, 1, p, val, now)
         waited == {i \in 1..Len(reqs) : reqs[i].state = "waiting" /\ reqs[i].p = p}
     IN  IF ups[CallOf(p)].kind # "status"
           THEN /\ reqs' = [i \in 1..Len(reqs) |->
                              IF i \in waited THEN fail(reqs[i]) ELSE reqs[i]]
                /\ promises' = [promises EXCEPT ![p].state = "rejected"]
                /\ UNCHANGED <<store, init, dirty, timer>>
           ELSE /\ AfterGetStore(g)
                /\ SetMem(f.m)
                /\ reqs' = [i \in 1..Len(reqs) |->
                              IF i \in waited THEN Given(f.reqs[i], seen) ELSE reqs[i]]
                /\ promises' = [promises EXCEPT ![p].state = "resolved", ![p].val = val]
  /\ inflight' = SettleCleanup(inflight, promises[p].key)
  /\ Step("none")
  /\ UNCHANGED <<calls, now, nops, ups, run, norm, ext, proxy, env, loads>>
  /\ UNCHANGED disk

\* the status codes of the answers that are not JSON
GatewayErrors == {502}

\* The three routes and every kind of answer of the generation service.
NextErrors ==
  \/ \E route \in {"start", "refine"} : Request(route, "refine", "A", "p1", NoValue)
  \/ StatusRequest("j1")
  \/ \E p \in 1..Len(promises) : \E ans \in SubmitAnswers(CallOf(p)) : SubmissionReturns(p, ans)
  \/ \E p \in 1..Len(promises) : \E ans \in StatusAnswers : StatusReturns(p, ans)
  \/ \E p \in 1..Len(promises) : SubmissionFails(p)
  \/ \E p \in 1..Len(promises) : \E status \in GatewayErrors : UpstreamNotJson(p, status)

SpecErrors == Init /\ [][NextErrors]_vars

(* ------------------------- the asset proxy ----------------------------- *)

\* the host names that occur in the url parameter
HostNames == {"assets.meshy.ai", "cdn.meshy.ai", "ASSETS.MESHY.AI",
              "assets.meshy.ai.evil.example", "evil.example", "notmeshy.ai", ""}

\* the url parameter of a request: missing, empty, a text that is no URL, or
\* a URL scheme://[userinfo@]hostname/model.glb
NoParam == [kind |-> "missing", userinfo |-> "", hostname |-> ""]
RawUrls ==
  {NoParam, [NoParam EXCEPT !.kind = "empty"], [NoParam EXCEPT !.kind = "text"]} \cup
  [kind : {"url"}, userinfo : {"", "assets.meshy.ai"}, hostname : HostNames]

\* the URL parser lower-cases the host name
LowerCaseHost(h) == IF h = "ASSETS.MESHY.AI" THEN "assets.meshy.ai" ELSE h

\* part_004:12-17  new URL(raw): throws for a text that is no URL
NewURL(raw) ==
  [ok |-> raw.kind = "url", userinfo |-> raw.userinfo,
   hostname |-> LowerCaseHost(raw.hostname)]

\* part_004:19  allowedHosts
AllowedHosts == {"assets.meshy.ai", "cdn.meshy.ai"}

\* a test that takes any name that ends in meshy.ai, or the text before the
\* host, for the host
HostAllowedLoosely(remote) ==
  \/ remote.hostname \in AllowedHosts \cup {"notmeshy.ai"}
  \/ remote.userinfo \in AllowedHosts

\* part_004:20  allowedHosts.has(remote.hostname)
HostAllowed(remote) == remote.hostname \in AllowedHosts

\* part_004:5-25  GET of the proxy up to its await: the three refusals, or
\* fetch(remote.toString())
ProxyRequest(raw) ==
  /\ Len(proxy) < MaxReqs
  /\ LET remote == NewURL(raw)
         r == [raw |-> raw, state |-> "done", status |-> 0, fetched |-> FALSE]
     IN  proxy' = Append(proxy,
           IF raw.kind \in {"missing", "empty"} THEN [r EXCEPT !.status = 400]
           ELSE IF ~remote.ok THEN [r EXCEPT !.status = 400]
           ELSE IF ~HostAllowed(remote) THEN [r EXCEPT !.status = 403]
           ELSE [r EXCEPT !.state = "waiting", !.fetched = TRUE])
  /\ Step("none")
  /\ UNCHANGED <<store, init, inflight, promises, calls, dirty, timer, now,
                 nops, reqs, ups, run, norm, ext, env, loads>>
  /\ UNCHANGED disk

\* the status codes the asset host answers with
AssetStatuses == {200, 404}

\* part_004:25-36  the asset host answers: the body is streamed through with
\* the status of the answer
ProxyFetchReturns(i, status) ==
  /\ i \in 1..Len(proxy)
  /\ proxy[i].state = "waiting"
  /\ proxy' = [proxy EXCEPT ![i].state = "done", ![i].status = status]
  /\ Step("none")
  /\ UNCHANGED <<store, init, inflight, promises, calls, dirty, timer, now,
                 nops, reqs, ups, run, norm, ext, env, loads>>
  /\ UNCHANGED disk

\* part_004:37-42  fetch rejects
ProxyFetchFails(i) ==
  /\ i \in 1..Len(proxy)
  /\ proxy[i].state = "waiting"
  /\ proxy' = [proxy EXCEPT ![i].state = "done", ![i].status = 500]
  /\ Step("none")
  /\ UNCHANGED <<store, init, inflight, promises, calls, dirty, timer, now,
                 nops, reqs, ups, run, norm, ext, env, loads>>
  /\ UNCHANGED disk

\* The asset proxy.
NextProxy ==
  \/ \E raw \in RawUrls : ProxyRequest(raw)
  \/ \E i \in 1..Len(proxy), status \in AssetStatuses : ProxyFetchReturns(i, status)
  \/ \E i \in 1..Len(proxy) : ProxyFetchFails(i)

SpecProxy == Init /\ [][NextProxy]_vars

(* ------------------------------ claims --------------------------------- *)

CallIds == 1..Len(calls)
PromiseIds == 1..Len(promises)

\* C1: a getOrSet call issued while its key is absent invokes compute when no
\* compute of that key is unsettled, and otherwise shares the unsettled
\* compute without invoking its own: compute runs once per batch of
\* concurrent calls and all of them get the outcome of that one compute.
C1_SingleFlight ==
  \A c \in CallIds :
    calls[c].absent =>
      IF calls[c].running = 0
        THEN calls[c].how = "lead"
        ELSE calls[c].how = "join" /\ calls[c].p = calls[c].running

\* C2: a failed compute, thrown or rejected, leaves no in-flight registration
\* behind once it has settled: every registration is of an unsettled compute,
\* so the next getOrSet of the key computes again.
C2_FailureCleanup ==
  \A k \in DOMAIN inflight : promises[inflight[k]].state = "pending"

\* C3: at most one compute per key is unsettled, and it is the one the
\* in-flight registry holds for that key.
C3_OneComputePerKey ==
  \A k \in Keys :
    /\ Cardinality({p \in PromiseIds :
                      promises[p].key = k /\ promises[p].state = "pending"}) <= 1
    /\ \A p \in PromiseIds :
         promises[p].key = k /\ promises[p].state = "pending"
           => k \in DOMAIN inflight /\ inflight[k] = p
    /\ k \in DOMAIN inflight
         => inflight[k] \in PromiseIds /\ promises[inflight[k]].key = k

\* two callers share one unsettled compute of a key
C3_Witness ==
  \E c1, c2 \in CallIds :
    /\ calls[c1].how = "lead"
    /\ calls[c2].how = "join"
    /\ calls[c2].p = calls[c1].p
    /\ promises[calls[c1].p].state = "pending"

C5_SaveLoadRoundTrip ==
  (last.load.did /\ last.load.ok /\ last.load.hadFile) =>
    /\ last.load.src.known
    /\ last.load.table = LiveAt(last.load.src.store, last.load.at)

\* a fresh process loaded a saved entry back from the snapshot file
C5_Witness ==
  /\ ncrash > 0
  /\ last.load.did /\ last.load.ok /\ last.load.hadFile
  /\ DOMAIN last.load.table # {}

\* a load dropped a saved entry that has expired since the save
C5_DropReached ==
  /\ last.load.did /\ last.load.ok /\ last.load.hadFile
  /\ DOMAIN last.load.table # DOMAIN last.load.src.store

\* C6: the snapshot file is at every instant the complete snapshot of one
\* table the process held, the previous one until the rename and the new one
\* after it, and every load read a complete file.
C6_AtomicSnapshot ==
  /\ file.exists =>
       /\ file.complete
       /\ savedFrom.known
       /\ file.data = StringifySnapshot(savedFrom.store, savedFrom.at)
  /\ last.load.did /\ last.load.hadFile => last.load.complete

\* a process crashed while writing the temporary file, and the next process
\* loaded the previous snapshot
C6_Witness ==
  /\ ncrash > 0
  /\ tmp.exists /\ ~tmp.complete
  /\ pc = "idle"
  /\ last.load.did /\ last.load.hadFile /\ last.load.ok
  /\ DOMAIN last.load.table # {}

\* C7: no load or save failure reaches a caller; a failed load leaves an
\* empty, initialised table; the persisting flag is set only while a save is
\* running, and a dirty table always has a timer or a running save that will
\* save it.
C7_PersistenceErrorsSwallowed ==
  /\ ~last.err
  /\ last.load.did => init
  /\ (last.load.did /\ ~last.load.ok) =>
       /\ last.load.table = EmptyTable
       /\ last.op # "set" => store = EmptyTable
  /\ persisting <=> pc # "idle"
  /\ dirty => (timer \/ rerun > 0 \/ pc # "idle")

\* a save has just failed while the table was dirty again: the flag is clear
\* and a re-run timer is pending
C7_Witness ==
  /\ last.op = "saveFailed"
  /\ ~persisting
  /\ dirty
  /\ rerun > 0

\* a load failed and the caller got its answer from the empty table
C7_LoadFailureReached ==
  /\ last.load.did /\ ~last.load.ok
  /\ last.op = "get"

\* the memory getStore() hands to the call of this step
BaseStore == IF init THEN store ELSE last'.load.table
BaseSched == IF init THEN dirty ELSE last'.load.ok /\ last'.load.hadFile
BaseTimer == IF init THEN timer ELSE last'.load.ok /\ last'.load.hadFile

\* C9 as claimed: get changes nothing but the entry of an expired key.
C9_GetOnlyDeletes ==
  [][(last'.op = "get" /\ nops' = nops + 1) =>
       /\ dirty' = dirty
       /\ timer' = timer
       /\ \A k \in Keys \ {last'.key} :
            (k \in DOMAIN store' <=> k \in DOMAIN store)
            /\ (k \in DOMAIN store => store'[k] = store[k])
       /\ last'.saw # "expired" => store' = store]_vars

\* C9 amended: on an expired key get removes the entry of that key from the
\* table getStore() returned and schedules a save (dirty flag set, debounce
\* timer pending); on a live or absent key it leaves that table, the dirty
\* flag and the timer as getStore() returned them; it never touches the
\* in-flight registry, the running save or the files.
C9_GetFrame ==
  [][(last'.op = "get" /\ nops' = nops + 1) =>
       /\ IF last'.saw = "expired"
            THEN /\ store' = TableDelete(BaseStore, last'.key)
                 /\ dirty' /\ timer'
            ELSE /\ store' = BaseStore
                 /\ dirty' = BaseSched
                 /\ timer' = BaseTimer
       /\ UNCHANGED <<inflight, promises, calls, persisting, rerun, pc, pdata,
                      psrc, file, tmp>>]_vars

\* after a completed save, a get evicted an expired entry beside a second
\* entry and a save is scheduled
C9_Witness ==
  /\ last.op = "get"
  /\ last.saw = "expired"
  /\ DOMAIN store # {}
  /\ file.exists
  /\ dirty /\ timer
  /\ pc = "idle" /\ rerun = 0

C10_PresentReached ==
  /\ last.op = "delete"
  /\ last.saw # "absent"
  /\ dirty /\ timer

\* no save is running, scheduled or owed
Quiescent == ~timer /\ rerun = 0 /\ pc = "idle" /\ ~persisting /\ ~dirty

\* the snapshot file holds the entries of the present table that were live
\* when it was written; no file only when nothing was ever put in the table
SnapshotCurrent ==
  IF file.exists
    THEN /\ savedFrom.known
         /\ savedFrom.store = LiveAt(store, savedFrom.at)
         /\ file.data = StringifySnapshot(store, savedFrom.at)
    ELSE store = EmptyTable

\* C8: once the mutations have stopped, the saves come to an end: from some
\* point on no save is running, scheduled or owed, and the snapshot file
\* holds the live entries of the table as the last mutation left it.
C8_SavesConverge == <>[](Quiescent /\ SnapshotCurrent)

\* all calls are made and the last save has written the live entries of the
\* table and left out an expired one
C8_Witness ==
  /\ nops = MaxOps
  /\ Quiescent
  /\ file.exists
  /\ DOMAIN savedFrom.store # {}
  /\ DOMAIN savedFrom.store # DOMAIN store

(* ---------------------- claims about the page's run -------------------- *)

\* the refine stage of the run did not produce a model
RefineStageFailed ==
  run.rsub \in {"rejected", "noId"} \/ run.rout \in {"failed", "timedout"}

\* C11: once the preview poll has returned Ready(u) the run ends with a model
\* shown: with u tagged as preview when the refine request is rejected or
\* returns no id or the refine poll ends Failed or TimedOut, with r tagged as
\* refine when the refine poll returns Ready(r).
C11_RefineBestEffort ==
  (run.pc = "idle" /\ run.pout = "ready") =>
    /\ run.end = "shown"
    /\ RefineStageFailed =>
         run.modelUrl = run.previewModelUrl /\ ~run.isRefinedModel
    /\ run.rout = "ready" =>
         /\ run.modelUrl = PickModelUrl(run.resp.json)
         /\ run.isRefinedModel

MaxAttempts == IF run.rsub = "ok" THEN RefineMaxAttempts ELSE PreviewMaxAttempts

\* the run is inside a poll loop
Polling == run.pc \in {"previewPolling", "refinePolling"}

\* C17: a poll loop has sent one status query per iteration begun, never more
\* than its attempt cap, whatever the responses were, and the run leaves the
\* loop.
C17_PollTerminates ==
  /\ [](run.queries <= MaxAttempts)
  /\ [](Polling => run.queries = run.i /\ run.i < MaxAttempts)
  /\ (run.pc = "previewPolling") ~> (run.pc # "previewPolling")
  /\ (run.pc = "refinePolling") ~> (run.pc # "refinePolling")

\* a refine loop has used all of its attempts, the last one on a non-2xx
\* response
C17_Witness ==
  /\ run.rout = "timedout"
  /\ run.queries = RefineMaxAttempts
  /\ ~run.resp.ok

\* the outcome of the poll loop the run is in or has last left, and the
\* variable the loop stores its URL in
PollOutcome == IF run.rsub = "ok" THEN run.rout ELSE run.pout
PollUrl == IF run.rsub = "ok" THEN run.modelUrl ELSE run.previewModelUrl

\* the last status response yields a URL / is a failure without a URL
YieldsUrl ==
  run.resp.ok /\ (run.resp.json.model_url # NoValue \/ run.resp.json.glb # NoValue)
YieldsFailure ==
  run.resp.ok /\ ~YieldsUrl /\ run.resp.json.status \in {"FAILED", "Canceled"}

\* C18: a poll loop ends Ready with the URL of the response that yields one,
\* ends Failed on a response without a URL whose status is failed or
\* canceled in any case of letters, ends TimedOut exactly when its last
\* attempt is used on a response that yields neither, and only goes on
\* after any other response.
C18_PollOutcome ==
  (run.queries > 0 /\ run.rsub \in {"none", "ok"}) =>
    /\ PollOutcome = "ready" <=> YieldsUrl
    /\ PollOutcome = "ready" =>
         PollUrl = (IF run.resp.json.model_url # NoValue
                      THEN run.resp.json.model_url ELSE run.resp.json.glb)
    /\ PollOutcome = "failed" <=> YieldsFailure
    /\ PollOutcome = "timedout" <=>
         (run.queries = MaxAttempts /\ ~YieldsUrl /\ ~YieldsFailure)
    /\ PollOutcome = "none" <=> Polling

\* a preview loop ended Failed on a response whose status is "Canceled"
C18_Witness ==
  /\ run.pout = "failed"
  /\ run.resp.ok /\ run.resp.json.status = "Canceled"
  /\ run.queries > 1

(* --------------------- claims about the normaliser --------------------- *)

\* the fields of a submission body in the order the specification names them
IdFields(j) ==
  <<j.id, j.task_id, j.generation_id,
    IF j.result.kind = "object" THEN j.result.id ELSE NoValue,
    IF j.result.kind = "object" THEN j.result.task_id ELSE NoValue,
    IF j.data.kind = "object" THEN j.data.id ELSE NoValue,
    IF j.data.kind = "object" THEN j.data.task_id ELSE NoValue,
    IF j.result.kind = "string" THEN j.result.s ELSE NoValue>>

\* the first non-empty string of a sequence of values, MissingId without one
FirstNonEmptyString(vs) ==
  LET ok == {i \in 1..Len(vs) : TypeofString(vs[i]) /\ vs[i] # ""}
  IN  IF ok = {} THEN MissingId
      ELSE vs[CHOOSE i \in ok : \A k \in ok : i <= k]

\* C20: the id a route answers with is the first non-empty string among id,
\* task_id, generation_id, result.id, result.task_id, data.id, data.task_id
\* and result as a string, and missing_id only when there is none.
C20_NormalizerOrder ==
  norm.out # NoValue => norm.out = FirstNonEmptyString(IdFields(norm.json))

(* --------------------- claims about the routes ------------------------- *)

\* the preview-mode start requests
PreviewCalls ==
  {i \in 1..Len(reqs) : reqs[i].route = "start" /\ reqs[i].mode = "preview"}

\* request j came while request i was still unanswered
Concurrent(i, j) == i \in reqs[j].peers

\* the submissions to the generation service that the requests of set S
\* made or waited for
SubmissionsOf(S) == {u \in 1..Len(ups) : \E i \in S : ups[u].p = reqs[i].p}

\* C14: two concurrent preview-mode start requests for the same track with
\* different prompts, issued when no binding exists, cause exactly one
\* upstream preview submission, and both return the same job id.
C14_OnePreviewPerTrack ==
  \A i, j \in PreviewCalls :
    ( /\ Concurrent(i, j)
      /\ reqs[i].spotifyId # NoValue
      /\ reqs[i].spotifyId = reqs[j].spotifyId
      /\ reqs[i].prompt # reqs[j].prompt
      /\ ~reqs[i].bound /\ ~reqs[j].bound )
    => /\ Cardinality(SubmissionsOf({i, j})) = 1
       /\ (reqs[i].state = "done" /\ reqs[j].state = "done") => reqs[i].id = reqs[j].id

\* C15: concurrent preview-mode start requests with the same prompt, issued
\* when no binding exists for them, cause exactly one upstream preview
\* submission, which all of them await, and all return the same job id or
\* the same failure.
C15_SamePromptCoalesces ==
  \A i, j \in PreviewCalls :
    ( /\ Concurrent(i, j)
      /\ reqs[i].prompt = reqs[j].prompt
      /\ ~reqs[i].bound /\ ~reqs[j].bound )
    => /\ Cardinality(SubmissionsOf({i, j})) = 1
       /\ reqs[i].p = reqs[j].p
       /\ reqs[i].state = reqs[j].state
       /\ reqs[i].id = reqs[j].id
       /\ reqs[i].status = reqs[j].status

\* all requests had one prompt, for different tracks, each came while the
\* earlier ones were unanswered, and all were answered with the job of the
\* one submission made
C15_Witness ==
  /\ Len(reqs) >= 2
  /\ Len(ups) = 1
  /\ \A i \in 1..Len(reqs) : /\ reqs[i].prompt = "A"
                             /\ reqs[i].state = "done"
                             /\ reqs[i].id = JobIds[1]
                             /\ ~reqs[i].bound
                             /\ \A j \in 1..(i - 1) : Concurrent(j, i)
  /\ reqs[1].spotifyId # reqs[2].spotifyId

\* the refine requests, whichever route serves them
RefineCalls == {i \in 1..Len(reqs) : reqs[i].mode = "refine"}

\* request i was answered with a job id before request j came
ReturnedBefore(i, j) ==
  i < j /\ ~Concurrent(i, j) /\ reqs[i].state = "done" /\ reqs[i].id # NoValue

\* C16: after a refine request for a preview job has returned refine job r,
\* every later refine request for that preview job that comes while the
\* long-TTL binding of the preview job is live returns r without a new
\* upstream refine submission, whichever route serves it.
C16_RefineIdempotent ==
  \A i, j \in RefineCalls :
    ( /\ ReturnedBefore(i, j)
      /\ reqs[i].previewId = reqs[j].previewId
      /\ reqs[j].bound )
    => /\ reqs[j].state = "done"
       /\ reqs[j].id = reqs[i].id
       /\ reqs[j].how # "lead"

\* the calls made to the status endpoint of the generation service
StatusCalls == {u \in 1..Len(ups) : ups[u].kind = "status"}

\* the answer 404 { message: "NoMatchingRoute" } of the generation service
RoutingError(ans) == ans.status = 404 /\ ans.json.message = "NoMatchingRoute"

\* C19 as stated: for one job id, no upstream status call is issued while a
\* cached status response for the job is live or a status query for it is
\* in flight.
C19_OneCallPerWindow ==
  \A u \in StatusCalls : ~ups[u].live /\ ~ups[u].running

\* C19: for one job id, a status query is started only while no cached
\* status response for the job is live and no status query for it is in
\* flight, whatever the number of pollers; a query makes one upstream call on
\* the primary path and at most one more, on the legacy path, after the
\* primary path has answered with the routing error.
C19_OneQueryPerWindow ==
  /\ \A u \in StatusCalls :
       /\ ~ups[u].live
       /\ ups[u].path = "primary" => ~ups[u].running
       /\ ups[u].path = "legacy" =>
            /\ ups[u].running
            /\ RoutingError(ups[u].after)
            /\ \E v \in 1..(u - 1) : ups[v].p = ups[u].p /\ ups[v].path = "primary"
  /\ \A p \in 1..Len(promises) :
       /\ Cardinality({u \in CallsOf(p) : ups[u].path = "primary"}) = 1
       /\ Cardinality({u \in CallsOf(p) : ups[u].path = "legacy"}) <= 1
  /\ \A i \in 1..Len(reqs) :
       reqs[i].route = "status" /\ reqs[i].how = "lead" =>
         ~reqs[i].bound /\ \A j \in reqs[i].peers : reqs[j].previewId # reqs[i].previewId

\* two pollers asked about one job at the same time; the one query made for
\* them went to the primary and then to the legacy path, and both were
\* answered from it
C19_Witness ==
  /\ Len(reqs) = 2 /\ Concurrent(1, 2)
  /\ reqs[1].previewId = reqs[2].previewId
  /\ reqs[1].state = "done" /\ reqs[2].state = "done"
  /\ reqs[1].status = 200 /\ reqs[2].status = 200
  /\ Len(ups) = 2 /\ ups[2].path = "legacy"

(* -------------------- claims about the extractors ---------------------- *)

\* a value that is a URL: a non-empty string
IsUrl(v) == v \notin {NoValue, NoUrl, ""}

\* the first element of the sequence vs that is a URL, or absent
RECURSIVE FirstUrl(_)
FirstUrl(vs) ==
  IF vs = <<>> THEN NoUrl
  ELSE IF IsUrl(vs[1]) THEN vs[1] ELSE FirstUrl(Tail(vs))

\* the URL of the first asset of the list that has one and whose URL or hint
\* names a model format, or else of the first asset that has a URL
ListUrl(l) ==
  LET named(a) == IsUrl(a.url)
                    /\ (EndsWithModelFormat(a.url) \/ HintIsModelFormat(a.format))
      with(a) == IsUrl(a.url)
      urls(s) == [i \in 1..Len(s) |-> s[i].url]
  IN  FirstUrl(urls(SelectSeq(l.items, named)) \o urls(SelectSeq(l.items, with)))

\* the order of the asset-reference extractor: the direct field, the map
\* keyed by format, the asset lists
OrderedUrl(j) ==
  FirstUrl(<<j.model_url, j.modelUrl, j.model_urls.glb, j.model_urls.gltf,
             ListUrl(j.assets), ListUrl(j.files)>>)

\* a result that is no URL is absent
Result(u) == IF IsUrl(u) THEN u ELSE NoUrl

\* C21: for every status response the asset-reference extractor, of the page
\* and of the status route, returns the first URL found in the order direct
\* model-url field, glb or gltf of the format-keyed map, asset-list entry
\* whose URL or hint names glb or gltf, first asset-list entry that has any
\* URL; it returns absent when none matches.
C21_ExtractorOrder ==
  ext.done => /\ Result(ext.page) = OrderedUrl(ext.json)
              /\ Result(ext.route) = OrderedUrl(ext.json)

(* ------------------- claims about the asset cache ---------------------- *)

\* the keys of the long-term asset cache that the table holds
ModelUrlKeys == {ModelUrlKey(t) : t \in Tracks} \cap DOMAIN store

\* C22: an asset URL is written under meshy:modelUrl:<sourceKey> only from a
\* 2xx status response that reports completion and carries a URL, never from
\* a pending, processing, failed or canceled response or a non-2xx one.
C22_CachedOnlyWhenComplete ==
  (last.op = "status" /\ last.key # "-") =>
    /\ ~last.err
    /\ last.res = "SUCCEEDED"
    /\ last.key \in ModelUrlKeys

\* the status requests that were answered with a model URL
ReadyPolls ==
  {i \in 1..Len(reqs) : /\ reqs[i].route = "status" /\ reqs[i].state = "done"
                        /\ reqs[i].status = 200 /\ Truthy(reqs[i].id)}

\* C23: once the poll of a job has returned Ready(r), the cache holds r as
\* the finished asset URL of the track, with the long asset TTL.
C23_ReadyIsPersisted ==
  \A i \in ReadyPolls :
    \E k \in ModelUrlKeys : /\ store[k].value = reqs[i].id
                            /\ store[k].expiresAt >= BindingTtl

(* --------------------- claims about route errors ----------------------- *)

\* a request has just been received
Received == Len(reqs') = Len(reqs) + 1

\* C24: when the credential is absent a submission, refine or status request
\* fails at once with a configuration error (500), makes no call to the
\* generation service, changes no cache entry and registers no in-flight
\* computation.
C24_MissingKeyFailsFast ==
  [][(Received /\ ~Truthy(env)) =>
       /\ reqs'[Len(reqs')].state = "done"
       /\ reqs'[Len(reqs')].status = 500
       /\ reqs'[Len(reqs')].id = NoValue
       /\ SubSeq(reqs', 1, Len(reqs)) = reqs
       /\ UNCHANGED <<store, init, dirty, timer, inflight, promises, ups>>]_vars

\* a request was refused for the missing credential while a submission to
\* the generation service was in flight
C24_Witness ==
  /\ ~Truthy(env)
  /\ Len(reqs) > 1 /\ reqs[Len(reqs)].how = "nokey"
  /\ reqs[Len(reqs)].status = 500
  /\ DOMAIN inflight # {}

\* the answered requests whose handler was given a non-2xx response of the
\* generation service
GivenNon2xx ==
  {i \in 1..Len(reqs) : /\ reqs[i].state = "done"
                        /\ reqs[i].up.status # 0
                        /\ reqs[i].up.status < 200 \/ reqs[i].up.status >= 300}

\* C25: a non-2xx response of the generation service to a submission or a
\* status call is returned to the caller with the upstream status code and
\* body unchanged, never as a job id, an asset URL or a failure of the
\* route's own.
C25_UpstreamErrorPassedOn ==
  \A i \in GivenNon2xx :
    /\ reqs[i].status = reqs[i].up.status
    /\ reqs[i].body = [kind |-> "upstream", json |-> reqs[i].up.json]
    /\ reqs[i].id = NoValue

(* ---------------------- claims about abandonment ----------------------- *)

\* promise p settles in this step
Settles(p) == promises[p].state = "pending" /\ promises'[p].state # "pending"

\* C26: a caller that stops awaiting leaves the shared state as it is; the
\* compute it triggered still settles, a result is stored under the key when
\* it settles, the in-flight registration of a settled compute is gone, and
\* the callers that share the compute have its result.
C26_AbandonIsHarmless ==
  /\ [][(\E c \in 1..Len(calls) : ~calls[c].gone /\ calls'[c].gone) =>
          UNCHANGED <<store, init, inflight, promises, dirty, timer>>]_vars
  /\ [][\A p \in 1..Len(promises) :
          (Settles(p) /\ promises'[p].state = "resolved") =>
            /\ promises[p].key \in DOMAIN store'
            /\ store'[promises[p].key].value = promises'[p].val
            /\ \A c \in 1..Len(calls) :
                 calls[c].p = p => promises'[calls[c].p].val = promises'[p].val]_vars
  /\ [](\A c \in 1..Len(calls) :
          (calls[c].gone /\ calls[c].how = "lead"
             /\ promises[calls[c].p].state # "pending") =>
            ~(calls[c].key \in DOMAIN inflight /\ inflight[calls[c].key] = calls[c].p))

(* ------------------------ claims about the proxy ----------------------- *)

\* the url parameter names a host of the allow list
NamesAllowedHost(raw) ==
  /\ raw.kind = "url"
  /\ raw.hostname \in {"assets.meshy.ai", "cdn.meshy.ai", "ASSETS.MESHY.AI"}

\* C27: the asset proxy fetches only URLs whose host is assets.meshy.ai or
\* cdn.meshy.ai; a request whose url is missing, unparsable or names another
\* host is rejected without a fetch.
C27_ProxyAllowList ==
  \A i \in 1..Len(proxy) :
    /\ proxy[i].fetched => NamesAllowedHost(proxy[i].raw)
    /\ ~NamesAllowedHost(proxy[i].raw) =>
         /\ proxy[i].state = "done"
         /\ ~proxy[i].fetched
         /\ proxy[i].status = IF proxy[i].raw.kind = "url" THEN 403 ELSE 400

\* the proxy has refused a URL that carries an allowed name before another
\* host, and has fetched a URL of an allowed host
C27_Witness ==
  \E i, j \in 1..Len(proxy) :
    /\ proxy[i].raw.userinfo = "assets.meshy.ai"
    /\ proxy[i].raw.hostname = "evil.example"
    /\ proxy[i].status = 403 /\ ~proxy[i].fetched
    /\ proxy[j].fetched /\ proxy[j].status = 200
    /\ proxy[j].raw.hostname = "cdn.meshy.ai"

(* ------------------- claims about the snapshot writer ------------------ *)

\* a timer that calls persistToDisk fires in this step (a restart of the
\* process drops the timers without running them)
TimerFired == ncrash' = ncrash /\ ((timer /\ ~timer') \/ rerun' < rerun)

\* C28: at most one body of persistToDisk is in progress at any instant: the
\* persisting flag is set exactly while a body is between its start and its
\* finally block, and a call of persistToDisk made while a body is in progress
\* starts no second body and touches neither the running one nor its files.
C28_OneSaveInProgress ==
  /\ [](persisting <=> pc # "idle")
  /\ [][(TimerFired /\ pc # "idle") =>
          UNCHANGED <<persisting, dirty, pc, pdata, psrc, file, tmp>>]_vars

\* the debounce timer of a mutation made during a save has fired during that
\* save: the save is still in progress and the table is still dirty
C28_Witness ==
  /\ pc = "renaming"
  /\ persisting
  /\ dirty
  /\ ~timer
  /\ rerun = 0

\* the timers that will call persistToDisk: the debounce timer of
\* schedulePersist and the re-run timers set by the finally block
PendingTimers == (IF timer THEN 1 ELSE 0) + rerun

\* C30: at any instant at most one timer that will start a save is pending,
\* counting the debounce timer and the re-run timer set after a save.
C30_OneTimerPending == PendingTimers <= 1

\* a body of persistToDisk starts in this step
SaveStarts == pc = "idle" /\ pc' = "writing"

\* not zero: a table changed during the first save has, once that save has
\* ended, a timer pending that will save it
C29_NotZero == (~FirstSave /\ dirty) => (PendingTimers >= 1 /\ pc = "idle")

\* not two or more: a save that starts after the first one has ended starts
\* for a table changed since the previous save started; with no change after
\* the first save has ended, that is the one additional save
C29_NotTwo == [][(SaveStarts /\ ~FirstSave) => dirty]_vars

\* C29: when the table is changed while a save is in progress and not after
\* the save has ended, exactly one additional save runs after it, not zero
\* and not two or more.
C29_ExactlyOneMoreSave == []C29_NotZero /\ C29_NotTwo

(* ------------------- claims about the job bindings --------------------- *)

\* the table has an entry for key k that has not expired
Live(k) == k \in DOMAIN store /\ store[k].expiresAt > now

\* the value bound to key k in the table, when the entry has not expired
LiveBinding(k) == IF Live(k) THEN store[k].value ELSE NoValue

\* the id bound to the track of request r, when r names a track
BoundToTrack(r) ==
  IF r.spotifyId = NoValue THEN NoValue
  ELSE LiveBinding("meshy:previewByTrack:" \o r.spotifyId)

\* the id bound to the prompt of request r
BoundToPrompt(r) == LiveBinding("meshy:previewByPrompt:" \o r.prompt)

\* a preview-mode start request arrives in this step
PreviewArrives ==
  /\ Len(reqs') = Len(reqs) + 1
  /\ reqs'[Len(reqs')].route = "start"
  /\ reqs'[Len(reqs')].mode = "preview"

\* the request that arrives in this step is answered at once with job id
\* and no submission is sent
AnsweredWith(id) ==
  /\ reqs'[Len(reqs')].state = "done"
  /\ reqs'[Len(reqs')].status = 200
  /\ reqs'[Len(reqs')].id = id
  /\ ups' = ups

\* C31: a preview request returns the job id bound to its track when such a
\* binding is live, otherwise the job id bound to its prompt when such a
\* binding is live, in both cases without an upstream submission; it submits
\* a new preview job only when neither binding is live.
C31_BindingLookupOrder ==
  [][PreviewArrives =>
       LET r == reqs'[Len(reqs')]
       IN  /\ BoundToTrack(r) # NoValue => AnsweredWith(BoundToTrack(r))
           /\ (BoundToTrack(r) = NoValue /\ BoundToPrompt(r) # NoValue) =>
                AnsweredWith(BoundToPrompt(r))
           /\ ups' # ups => (BoundToTrack(r) = NoValue /\ BoundToPrompt(r) = NoValue)]_vars

\* a request whose track and prompt are bound to different jobs has been
\* answered with the job of its track
C31_Witness ==
  \E i \in 1..Len(reqs) :
    /\ reqs[i].how = "fast"
    /\ BoundToTrack(reqs[i]) = reqs[i].id
    /\ BoundToPrompt(reqs[i]) # NoValue
    /\ BoundToPrompt(reqs[i]) # reqs[i].id

\* request i has sent a preview submission and obtained the job id it was
\* answered with, and the bindings written for that job have not expired
Obtained(i) ==
  /\ reqs[i].route = "start" /\ reqs[i].mode = "preview"
  /\ reqs[i].how = "lead"
  /\ reqs[i].state = "done" /\ reqs[i].status = 200
  /\ Live("meshy:preview:" \o reqs[i].id)

\* C32: once a preview request has submitted a job and obtained id j, until
\* the binding expires every preview request with the same track and any
\* prompt, and every one with the same prompt and a track that has no
\* binding of its own, returns j without a new submission.
C32_BoundToBoth ==
  [][PreviewArrives =>
       LET r == reqs'[Len(reqs')]
       IN  \A i \in 1..Len(reqs) :
             ( /\ Obtained(i)
               /\ \/ r.spotifyId # NoValue /\ r.spotifyId = reqs[i].spotifyId
                  \/ r.prompt = reqs[i].prompt /\ BoundToTrack(r) = NoValue )
             => AnsweredWith(reqs[i].id)]_vars

\* the keys of the job-id bindings: by track, by prompt, and from preview
\* job to refine job
BindingKeys ==
  {"meshy:previewByTrack:" \o t : t \in Tracks} \cup
  {"meshy:previewByPrompt:" \o q : q \in Prompts} \cup
  {"meshy:refinement:" \o q : q \in PreviewIds}

\* a submission was answered 2xx with job id
SubmissionGave(id) ==
  \E p \in 1..Len(promises) :
    /\ promises[p].state = "resolved"
    /\ promises[p].val.status >= 200 /\ promises[p].val.status < 300
    /\ promises[p].val.json.id = id

\* every binding in the table holds the id of a submission answered 2xx
C33_WrittenAfterSuccess ==
  \A k \in BindingKeys \cap DOMAIN store : SubmissionGave(store[k].value)

\* a binding that is live keeps its job id in every step
C33_LiveNotOverwritten ==
  [][\A k \in BindingKeys :
       (Live(k) /\ k \in DOMAIN store') => store'[k].value = store[k].value]_vars

\* C33: a job-id binding is written only after a submission that returned
\* 2xx with a usable id, and while it is live it is never overwritten with a
\* different job id.
C33_BindingsStable == []C33_WrittenAfterSuccess /\ C33_LiveNotOverwritten

(* --------------------- claims about the normalisers -------------------- *)

\* C34: the job-id normalisers of the start route, the refine route and the
\* rig route agree on every submission response: they return the same job id
\* or all report a missing id.
C34_NormalizersAgree ==
  norm.out # NoValue => (norm.refine = norm.out /\ norm.rig = norm.out)

\* the three routes took the id from a body { result: "<generation-id>" }
C34_Witness ==
  /\ norm.json.result.kind = "string"
  /\ norm.out = norm.json.result.s
  /\ norm.refine = norm.out
  /\ norm.rig = norm.out
  /\ norm.out # MissingId

(* --------------------- claims about the extractors --------------------- *)

\* C35: the extractor of the status route and the extractor of the page
\* agree on every status response: both return the same URL or both return
\* absent.
C35_ExtractorsAgree == ext.done => Result(ext.page) = Result(ext.route)

(* ------------------ claims about cached submissions -------------------- *)

\* the submission cache key of request r
KeyOf(r) == RouteCacheKey(r.route, r.mode, r.prompt, r.previewId, r.spotifyId)

\* a response of the generation service that is not 2xx
Non2xx(up) == up.status # 0 /\ (up.status < 200 \/ up.status >= 300)

\* request i sent a submission that is answered non-2xx in this step
AnsweredNon2xx(i) ==
  /\ reqs[i].route \in {"start", "refine"}
  /\ reqs[i].how = "lead"
  /\ reqs[i].state = "waiting" /\ reqs'[i].state = "done"
  /\ Non2xx(reqs'[i].up)

\* a non-2xx response to a submission is stored under the key of the
\* submission for the lifetime of submission responses
C36_ErrorStored ==
  [][\A i \in 1..Len(reqs) :
       AnsweredNon2xx(i) =>
         /\ KeyOf(reqs[i]) \in DOMAIN store'
         /\ store'[KeyOf(reqs[i])].value = reqs'[i].up
         /\ store'[KeyOf(reqs[i])].expiresAt = now + RouteCacheTtl(reqs[i].route)]_vars

\* while a non-2xx response is stored under its key, a request with that key
\* is answered with the stored status and body and no submission is sent
C36_ErrorServed ==
  [][\A route \in {"start", "refine"} :
       ( /\ Len(reqs') = Len(reqs) + 1
         /\ reqs'[Len(reqs')].route = route
         /\ Live(KeyOf(reqs'[Len(reqs')]))
         /\ Non2xx(store[KeyOf(reqs'[Len(reqs')])].value) )
       => LET r == reqs'[Len(reqs')]
              val == store[KeyOf(r)].value
          IN  /\ r.state = "done"
              /\ r.status = val.status
              /\ r.body = [kind |-> "upstream", json |-> val.json]
              /\ ups' = ups]_vars

\* C36: a non-2xx response to a preview or refine submission is stored under
\* the submission cache key like a success: until the entry expires every
\* further request with the same key receives that status and body and no
\* new submission is made.
C36_ErrorsCached == C36_ErrorStored /\ C36_ErrorServed

(* ------------------ claims about the page's guard ---------------------- *)

\* the calls of tryLoadMeshyModel that are past the guard and have not ended
PastGuard == {i \in 1..Len(loads.calls) : loads.calls[i] = "running"}

\* at most one call is past the guard
C37_OnePastGuard == Cardinality(PastGuard) <= 1

\* a call made while another is running returns without a request and leaves
\* the flag set
C37_OthersReturn ==
  [][(Len(loads'.calls) = Len(loads.calls) + 1 /\ PastGuard # {}) =>
       /\ loads'.calls[Len(loads'.calls)] # "running"
       /\ loads'.fetches = loads.fetches
       /\ loads'.modelLoadInProgress]_vars

\* C37: within one TrackVisualClient at most one tryLoadMeshyModel workflow
\* is past its in-progress guard at any time: while one call is running,
\* every other call returns without a request and leaves the flag set.
C37_OneWorkflow == []C37_OnePastGuard /\ C37_OthersReturn

(* --------------- claims about changes during a compute ----------------- *)

\* what the caller of call c receives once the promise it awaits is resolved
Receives(c) == IF calls[c].how = "hit" THEN calls[c].val ELSE promises[calls[c].p].val

\* a set or a delete leaves every compute and every registration as it is
C38_NotCancelled ==
  [][last'.op \in {"set", "delete"} => (promises' = promises /\ inflight' = inflight)]_vars

\* the value of a compute that resolves replaces the entry of its key
C38_ValueReplaces ==
  [][\A p \in 1..Len(promises) :
       (promises[p].state = "pending" /\ promises'[p].state = "resolved") =>
         /\ promises[p].key \in DOMAIN store'
         /\ store'[promises[p].key].value = promises'[p].val
         /\ store'[promises[p].key].expiresAt =
              now + (IF promises[p].ttl > 0 THEN promises[p].ttl ELSE 0)]_vars

\* a caller that joined awaits the compute of its key, also when the key was
\* set or deleted meanwhile, and receives the value of that compute
C38_JoinersReceive ==
  \A c \in 1..Len(calls) :
    calls[c].how = "join" =>
      /\ promises[calls[c].p].key = calls[c].key
      /\ \E d \in 1..Len(calls) : calls[d].how = "lead" /\ calls[d].p = calls[c].p
      /\ promises[calls[c].p].state = "resolved" =>
           Receives(c) = promises[calls[c].p].val

\* C38: a delete(k) or set(k, v) issued while a getOrSet compute for k is in
\* flight does not cancel that compute: when compute resolves, its value
\* replaces whatever entry k has at that moment, and every caller that
\* joined the computation receives compute's value.
C38_ComputeSurvives ==
  C38_NotCancelled /\ C38_ValueReplaces /\ []C38_JoinersReceive

\* a key was set while its compute was in flight (a getOrSet found the entry
\* while the compute ran), and the value of the compute has replaced what
\* was set
C38_Witness ==
  \E c \in 1..Len(calls) :
    /\ calls[c].how = "hit"
    /\ calls[c].val = "a"
    /\ calls[c].running # 0
    /\ promises[calls[c].running].state = "resolved"
    /\ promises[calls[c].running].val = "b"
    /\ calls[c].key \in DOMAIN store
    /\ store[calls[c].key].value = "b"

(* ------------------ claims about non-positive lifetimes ---------------- *)

\* set(k, v, ttl) with ttl <= 0 stores v with expiresAt equal to the current
\* time
C39_SetClamps ==
  [][\A k \in Keys, v \in DiskValues, ttl \in TTLs :
       (ttl <= 0 /\ cacheSet(k, v, ttl) /\ ~last'.err) =>
         store'[k] = [value |-> v, expiresAt |-> now]]_vars

\* an entry whose expiresAt is not after the current time is returned by no
\* get and no getOrSet
C39_NeverRead ==
  [][\A k \in Keys :
       ( /\ init /\ k \in DOMAIN store /\ store[k].expiresAt <= now
         /\ last'.op \in {"get", "getOrSet"} /\ last'.key = k )
       => /\ last'.res = NoValue
          /\ last'.op = "getOrSet" => calls'[Len(calls')].how # "hit"]_vars

\* a compute started with ttl <= 0 that resolves gives its value to the
\* promise its caller and the joiners hold, and stores it as expired
C39_ValueReturned ==
  [][\A p \in 1..Len(promises) :
       ( /\ promises[p].ttl <= 0
         /\ promises[p].state = "pending" /\ promises'[p].state = "resolved" )
       => /\ promises'[p].val \in Values
          /\ store'[promises[p].key] =
               [value |-> promises'[p].val, expiresAt |-> now]]_vars

\* a getOrSet of key k with ttl <= 0 has resolved
ResolvedUncached(k) ==
  \E p \in 1..Len(promises) :
    promises[p].key = k /\ promises[p].ttl <= 0 /\ promises[p].state = "resolved"

\* after a getOrSet(k, ttl <= 0) has resolved, a getOrSet of k that finds no
\* live entry and no unsettled compute invokes its compute
C39_LaterRecomputes ==
  [][\A k \in Keys :
       ( /\ ResolvedUncached(k) /\ ~Live(k) /\ ~Running(k)
         /\ last'.op = "getOrSet" /\ last'.key = k /\ ~last'.err )
       => calls'[Len(calls')].how = "lead"]_vars

\* C39: set(k, v, ttl) with ttl <= 0 stores expiresAt equal to the current
\* time, so no later get(k) returns v; getOrSet(k, ttl <= 0, compute) still
\* returns compute's value to its caller and to the callers that joined it,
\* but every later getOrSet(k, ...) call recomputes.
C39_NonPositiveTtl ==
  C39_SetClamps /\ C39_NeverRead /\ C39_ValueReturned /\ C39_LaterRecomputes

=============================================================================
